---- MODULE Spec2Model ----
(***************************************************************************)
(* Model of the twitter-client package: the request-pacing gate            *)
(* (utils/rate-limiter.ts), the posting client built on it                 *)
(* (client/TwitterClient.ts, auth/TwitterAuth.ts) and the login flow of    *)
(* TwitterUserAuth (spaces/test.ts, __tests__/login.test.ts).              *)
(*                                                                         *)
(* Time is a discrete clock, one tick = 500 ms, so that minDelay (1000 ms) *)
(* is 2 ticks and a call can arrive strictly inside the minimum delay.     *)
(* An action is one synchronous run of JavaScript between two awaits: it   *)
(* reads the clock once.  A timer never fires early; its callback runs at  *)
(* most MaxLate ticks after its expiry.                                    *)
(***************************************************************************)
EXTENDS Integers, Sequences, FiniteSets

(* rate-limiter.ts:6  minDelay = 1000 ms = 2 ticks *)
minDelay == 2

(* rate-limiter.ts:4  maxRequests = 50, modelled at a reduced scale *)
maxRequests == 3

(* rate-limiter.ts:5  timeWindow = 15 min, modelled at a reduced scale;  *)
(* as in the source maxRequests * minDelay < timeWindow, so the ceiling,  *)
(* not the minimum delay, is what keeps maxRequests+1 grants apart        *)
timeWindow == 8

(* the clock is observed for Horizon ticks after the start *)
Horizon == 14

(* how many ticks after its expiry the callback of a timer may run: the  *)
(* tasks only await, so the event loop is free when a timer expires      *)
MaxLate == 0

(* Date.now() when the limiter is constructed: far more than timeWindow   *)
(* after the epoch, so the first call sees now - lastRequest > timeWindow *)
StartTime == timeWindow + 1

MaxTime == StartTime + Horizon

(* TwitterClient.ts:59  the backoff unit, 1000 ms = 2 ticks *)
Second == 2

(* the clock of the posting client is observed for ClientHorizon ticks *)
ClientHorizon == 14

ClientMaxTime == StartTime + ClientHorizon

(* the asynchronous tasks that may be suspended in the limiter at once *)
Callers == {"a", "b", "c"}

(* the tasks that use the posting client *)
ClientCallers == {"a"}

(* the retries argument of postTweet, a JavaScript number, in halves:    *)
(* -1, 0, 1, 1.5, 2 and 3 (the default)                                  *)
RetriesArgs == {-2, 0, 2, 3, 4, 6}

(* what api.v2.tweet can answer: a response with data, a response        *)
(* without data, a rejection with an Error, a rejection with a value     *)
(* that is no Error                                                      *)
Tweets == {[id |-> "1", text |-> "gm"], [id |-> "2", text |-> "gn"]}
Messages == {"timeout", "forbidden"}

TweetOutcomes ==
  {[kind |-> "data", id |-> tw.id, text |-> tw.text, message |-> ""] : tw \in Tweets}
  \cup {[kind |-> "nodata", id |-> "", text |-> "", message |-> ""]}
  \cup {[kind |-> "error", id |-> "", text |-> "", message |-> m] : m \in Messages}
  \cup {[kind |-> "value", id |-> "", text |-> "", message |-> m] : m \in Messages}

(* what api.v2.deleteTweet can answer: it resolves, or it rejects with an *)
(* Error                                                                  *)
(* what new TwitterApi(bearerToken) can do: return the client or throw *)
ApiOutcomes ==
  {[kind |-> "built", id |-> "", text |-> "", message |-> ""]}
  \cup {[kind |-> "thrown", id |-> "", text |-> "", message |-> m] : m \in Messages}

DeleteOutcomes ==
  {[kind |-> "done", id |-> "", text |-> "", message |-> ""]}
  \cup {[kind |-> "failed", id |-> "", text |-> "", message |-> m] : m \in Messages}

VARIABLES
  now,            \* Date.now()
  lastRequest,    \* RateLimiter.lastRequest
  requestCount,   \* RateLimiter.requestCount
  pc,             \* per task: where its running operation stands
  tsl,            \* per task: the local timeSinceLastRequest (line 10)
  wake,           \* per task: expiry time of the pending setTimeout
  timers,         \* the tasks with a pending setTimeout, in order of creation
  api,            \* TwitterAuth.api is not null
  attempt,        \* per task: postTweet's loop variable
  retries,        \* per task: postTweet's retries argument, in halves
  result,         \* per task: what its last client operation returned or threw
  grantLog,       \* history: times of the last maxRequests+1 grants
  arrival,        \* history: tasks inside waitForNext, in call order
  acquires,       \* history, per task: waitForNext calls of the running operation
  netCalls,       \* history, per task: transport calls of the running operation
  gated,          \* history, per task: the last transport call followed a grant
  outcomes,       \* history, per task: the outcomes of the running operation's transport calls
  lpc,            \* where the login or isLoggedIn call of TwitterUserAuth stands
  args,           \* which arguments of the running login call are non-empty
  logins,         \* number of login calls so far
  guestToken,     \* TwitterGuestAuth.guestToken: 0 if unset, else the login that got it
  jar,            \* TwitterGuestAuth.jar: its cookies, one for a key
  step,           \* the flow request in progress: 'init', a subtask_id or 'success'
  reqToken,       \* the flow_token of the flow request in progress
  retryCount,     \* executeFlowTask's retryCount
  timer,          \* ticks left on the pending setTimeout of executeFlowTask
  flow,           \* the FlowTokenResult the last finished flow request resolved to
  loginResult,    \* how the last login call settled
  loggedIn,       \* what the last isLoggedIn call returned
  requests,       \* history: requests sent for the flow request in progress
  denied,         \* history: each of its responses so far was DenyLoginSubtask
  slept,          \* history: ticks since the pending setTimeout was created
  sent,           \* history: the flow requests of the running login, without retries
  onScript,       \* history: every response so far came first time, in the expected order
  verified,       \* history: the outcome of the last verify_credentials request
  attempts,       \* handleTwoFactorAuthChallenge's loop variable, 0 outside the loop
  rejects,        \* history: each response to the request in progress rejected it
  reqHeaders,     \* history: the cookie and x-csrf-token headers of the last flow request
  guestCreatedAt, \* TwitterGuestAuth.guestCreatedAt: 0 if unset, else a time
  v2Client,       \* TwitterGuestAuth.v2Client is not null
  received,       \* history: the cookies of the responses received by this jar
  spc,            \* per task: where its operation on the TwitterGuestAuth stands
  sop,            \* per task: its operation on the TwitterGuestAuth under way
  headers,        \* per task: the Headers object it passes to installTo
  sresult,        \* history: how the last operation that settled did so
  ops,            \* history: operations called on the session
  overlapped      \* history: two guest activation requests were under way at once

limiterVars == <<lastRequest, requestCount, grantLog>>
waitVars == <<pc, tsl, wake, timers, arrival>>
clientVars == <<api, attempt, retries, result, acquires, netCalls, gated, outcomes>>
posterVars == <<now, limiterVars, waitVars, clientVars>>
loginVars == <<lpc, args, logins, guestToken, jar, step, reqToken, retryCount, timer,
               flow, loginResult, loggedIn, requests, denied, slept, sent, onScript,
               verified, attempts, rejects, reqHeaders>>
sessionVars == <<guestCreatedAt, v2Client, received>>
taskVars == <<spc, sop, headers, sresult, ops, overlapped>>
flowVars == <<lpc, args, logins, step, reqToken, retryCount, timer, flow, loginResult,
              loggedIn, requests, denied, slept, sent, onScript, verified, attempts,
              rejects, reqHeaders>>
authVars == <<loginVars, sessionVars, taskVars>>
vars == <<posterVars, authVars>>

Suspended == {"minDelay", "window"}

(* the positions at which a task waits for a setTimeout *)
Timed == {"minDelay", "window", "backoff"}

(* a timer is MaxLate ticks past its expiry: the event loop runs its      *)
(* callback before the clock advances and before any task makes a new    *)
(* call                                                                  *)
TimerDue == \E c \in Callers : pc[c] \in Timed /\ now >= wake[c] + MaxLate

(* the event loop runs the callbacks of timers in order of expiry, and   *)
(* those of equal expiry in order of creation                            *)
FiresNext(c) ==
  \E i \in 1..Len(timers) :
    /\ timers[i] = c
    /\ \A j \in 1..Len(timers) :
         \/ wake[timers[j]] > wake[c]
         \/ wake[timers[j]] = wake[c] /\ j >= i

(* history of grants, trimmed to the last maxRequests+1 *)
Logged(log, t) ==
  LET l == Append(log, t)
  IN  IF Len(l) > maxRequests + 1 THEN Tail(l) ELSE l

Without(seq, c) == SelectSeq(seq, LAMBDA x : x # c)

(* rate-limiter.ts:10 *)
TimeSinceLastRequest == now - lastRequest

(* rate-limiter.ts:13: the minimum delay has not passed *)
TooSoon(t) == t < minDelay

(* fault: the timer waits the elapsed time, not the remainder *)
MinDelayWaitElapsed(t) == t

(* rate-limiter.ts:14: the delay of the first timer *)
MinDelayWait(t) == minDelay - t

(* rate-limiter.ts:18-20: the counter as seen after the window reset *)
CountAfterReset(t) == IF t > timeWindow THEN 0 ELSE requestCount

(* fault: the ceiling test is off by one *)
AtCeilingStrict(cnt) == cnt > maxRequests

(* rate-limiter.ts:23: the ceiling is reached *)
AtCeiling(cnt) == cnt >= maxRequests

(* fault: the second timer allows for the time the first has taken *)
WindowWaitLessDelay(t) == timeWindow - t - minDelay

(* rate-limiter.ts:24: the delay of the second timer *)
WindowWait(t) == timeWindow - t

(* fault: the counter is not reset after the window wait *)
CountAfterWindowWaitKept == requestCount

(* rate-limiter.ts:26: the counter after the window wait *)
CountAfterWindowWait == 0

(* rate-limiter.ts:29-30: the grant *)
Grant(c, cnt) ==
  /\ requestCount' = cnt + 1
  /\ lastRequest' = now
  /\ grantLog' = Logged(grantLog, now)
  /\ pc' = [pc EXCEPT ![c] = "granted"]
  /\ tsl' = [tsl EXCEPT ![c] = 0]
  /\ wake' = [wake EXCEPT ![c] = 0]
  /\ timers' = Without(timers, c)

(* rate-limiter.ts:17-30, run with the local t: reset, ceiling check, and *)
(* either the window wait (line 25) or the grant                          *)
AfterMinDelay(c, t) ==
  LET cnt == CountAfterReset(t)
  IN  IF AtCeiling(cnt)
      THEN /\ requestCount' = cnt
           /\ pc' = [pc EXCEPT ![c] = "window"]
           /\ wake' = [wake EXCEPT ![c] = now + WindowWait(t)]
           /\ timers' = Append(Without(timers, c), c)
           /\ tsl' = [tsl EXCEPT ![c] = 0]
           /\ UNCHANGED <<lastRequest, grantLog>>
      ELSE Grant(c, cnt)

(* rate-limiter.ts:9-30: the synchronous start of waitForNext *)
Enter(c) ==
  LET t == TimeSinceLastRequest
  IN  /\ arrival' = Append(arrival, c)
      /\ IF TooSoon(t)
         THEN /\ pc' = [pc EXCEPT ![c] = "minDelay"]
              /\ tsl' = [tsl EXCEPT ![c] = t]
              /\ wake' = [wake EXCEPT ![c] = now + MinDelayWait(t)]
              /\ timers' = Append(Without(timers, c), c)
              /\ UNCHANGED limiterVars
         ELSE AfterMinDelay(c, t)

(* a task calls waitForNext while others may be suspended in it *)
Call(c) ==
  /\ pc[c] = "idle"
  /\ ~TimerDue
  /\ Enter(c)
  /\ UNCHANGED <<now, clientVars, authVars>>

(* the timer of line 14 has fired: lines 17-30 run with the stale t *)
ResumeMinDelay(c) ==
  /\ pc[c] = "minDelay"
  /\ now >= wake[c]
  /\ FiresNext(c)
  /\ AfterMinDelay(c, tsl[c])
  /\ UNCHANGED <<now, arrival, clientVars, authVars>>

(* fault: after the window wait the ceiling is tested again, without the  *)
(* reset of line 26                                                       *)
ResumeWindowAgain(c) ==
  /\ pc[c] = "window"
  /\ now >= wake[c]
  /\ FiresNext(c)
  /\ AfterMinDelay(c, 0)
  /\ UNCHANGED <<now, arrival, clientVars, authVars>>

(* the timer of line 25 has fired: lines 26-30 *)
ResumeWindow(c) ==
  /\ pc[c] = "window"
  /\ now >= wake[c]
  /\ FiresNext(c)
  /\ Grant(c, CountAfterWindowWait)
  /\ UNCHANGED <<now, arrival, clientVars, authVars>>

(* the promise of waitForNext is resolved and its caller goes on *)
Return(c) ==
  /\ pc[c] = "granted"
  /\ pc' = [pc EXCEPT ![c] = "idle"]
  /\ arrival' = Without(arrival, c)
  /\ UNCHANGED <<now, limiterVars, tsl, wake, timers, clientVars, authVars>>

(* the clock advances, up to the end of the observation *)
Advance(limit) ==
  /\ now < limit
  /\ ~TimerDue
  /\ now' = now + 1
  /\ UNCHANGED <<limiterVars, waitVars, clientVars, authVars>>

Tick == Advance(MaxTime)

(* types/twitter.ts:6-9 TwitterResponse: an optional field is a sequence *)
(* of no or one value; kind tells a returned response from a thrown      *)
(* fault and from deleteTweet's boolean                                  *)
NoResult == [kind |-> "none", data |-> <<>>, errors |-> <<>>, message |-> "", ok |-> FALSE]

(***************************************************************************)
(* The posting client: client/TwitterClient.ts over auth/TwitterAuth.ts    *)
(***************************************************************************)

(* fault: the loop body runs once before retries is looked at *)
AttemptAllowedOnce(a, r) == a = 1 \/ 2 * a <= r

(* TwitterClient.ts:27: attempt <= retries, retries counted in halves *)
AttemptAllowed(a, r) == 2 * a <= r

(* TwitterClient.ts:50: attempt === retries *)
LastAttempt(a, r) == 2 * a = r

(* fault: the backoff starts at one second *)
BackoffFromOne(a) == (2 ^ (a - 1)) * Second

(* TwitterClient.ts:59: Math.pow(2, attempt) * 1000 ms *)
Backoff(a) == (2 ^ a) * Second

(* TwitterClient.ts:22-25 and 72-75: thrown when auth.getApi() is null *)
NotAuthenticated ==
  [kind |-> "fault", data |-> <<>>, errors |-> <<>>,
   message |-> "Not authenticated. Call initialize() first.", ok |-> FALSE]

(* fault: the success result carries an errors list as well *)
SuccessResultWithErrors(o, at) ==
  [kind |-> "response",
   data |-> <<[id |-> o.id, text |-> o.text, created_at |-> at, author_id |-> o.id]>>,
   errors |-> << <<>> >>, message |-> "", ok |-> FALSE]

(* fault: id and text of the response are swapped *)
SuccessResultSwapped(o, at) ==
  [kind |-> "response",
   data |-> <<[id |-> o.text, text |-> o.id, created_at |-> at, author_id |-> o.id]>>,
   errors |-> <<>>, message |-> "", ok |-> FALSE]

(* TwitterClient.ts:41-48: the success result built from response.data *)
SuccessResult(o, at) ==
  [kind |-> "response",
   data |-> <<[id |-> o.id, text |-> o.text, created_at |-> at, author_id |-> o.id]>>,
   errors |-> <<>>, message |-> "", ok |-> FALSE]

(* fault: the catch clause reports a fixed message *)
CaughtGeneric(o) == [isError |-> TRUE, message |-> "Failed to create tweet"]

(* TwitterClient.ts:37-39 and 49: what the catch clause receives *)
Caught(o) ==
  IF o.kind = "nodata"
  THEN [isError |-> TRUE, message |-> "Failed to create tweet"]
  ELSE [isError |-> (o.kind = "error"), message |-> o.message]

(* fault: the error result carries an empty list *)
ErrorResultEmpty(e) ==
  [kind |-> "response", data |-> <<>>, errors |-> << <<>> >>, message |-> "", ok |-> FALSE]

(* TwitterClient.ts:51-56: the error result of the last attempt *)
ErrorResult(e) ==
  [kind |-> "response", data |-> <<>>,
   errors |-> << <<[code |-> IF e.isError THEN 500 ELSE 400, message |-> e.message]>> >>,
   message |-> "", ok |-> FALSE]

(* TwitterClient.ts:63-68: the result after the loop *)
FallbackResult ==
  [kind |-> "response", data |-> <<>>,
   errors |-> << <<[code |-> 500, message |-> "Maximum retry attempts reached"]>> >>,
   message |-> "", ok |-> FALSE]

(* fault: the catch clause rethrows what api.v2.deleteTweet rejected with *)
DeleteResultSurfaced(o) ==
  IF o.kind = "done"
  THEN [kind |-> "deleted", data |-> <<>>, errors |-> <<>>, message |-> "", ok |-> TRUE]
  ELSE [kind |-> "fault", data |-> <<>>, errors |-> <<>>, message |-> o.message, ok |-> FALSE]

(* TwitterClient.ts:77-82: deleteTweet's boolean: true after the awaited  *)
(* call, false from the catch clause, which drops the error               *)
DeleteResult(o) ==
  [kind |-> "deleted", data |-> <<>>, errors |-> <<>>, message |-> "",
   ok |-> (o.kind = "done")]

(* fault: the null check is missing *)
ApiMissingIgnored == FALSE

(* TwitterClient.ts:22 and 72: const api = this.auth.getApi(); if (!api) *)
ApiMissing == ~api

(* the message of new Error(`Login failed: ${message}`) *)
LoginFailed(m) ==
  CASE m = "timeout" -> "Login failed: timeout"
    [] m = "forbidden" -> "Login failed: forbidden"

(* TwitterAuth.ts:34-40: login resolves once the TwitterApi is built; if  *)
(* the constructor throws, login rejects with a new Error whose message   *)
(* is 'Login failed: ' followed by the message of what was thrown         *)
LoginSettles(t) ==
  IF t.kind = "built"
  THEN [kind |-> "resolved", data |-> <<>>, errors |-> <<>>, message |-> "", ok |-> FALSE]
  ELSE [kind |-> "rejected", data |-> <<>>, errors |-> <<>>,
        message |-> LoginFailed(t.message), ok |-> FALSE]

(* fault: initialize catches the rejection of login *)
InitializeSwallows(l) ==
  [kind |-> "resolved", data |-> <<>>, errors |-> <<>>, message |-> "", ok |-> FALSE]

(* TwitterClient.ts:13-15: initialize awaits auth.login() and nothing     *)
(* else, so it settles as that promise settles                            *)
InitializeSettles(l) == l

(* TwitterClient.ts:13-15 over TwitterAuth.ts:33-41: one call of login,   *)
(* which sets api unless the TwitterApi constructor throws with outcome t *)
Initialize(c, t) ==
  /\ pc[c] = "idle"
  /\ ~TimerDue
  /\ api' = (api \/ t.kind = "built")
  /\ outcomes' = [outcomes EXCEPT ![c] = <<t>>]
  /\ result' = [result EXCEPT ![c] = InitializeSettles(LoginSettles(t))]
  /\ attempt' = [attempt EXCEPT ![c] = 0]
  /\ retries' = [retries EXCEPT ![c] = 0]
  /\ acquires' = [acquires EXCEPT ![c] = 0]
  /\ netCalls' = [netCalls EXCEPT ![c] = 0]
  /\ gated' = [gated EXCEPT ![c] = FALSE]
  /\ UNCHANGED <<now, limiterVars, waitVars, authVars>>

(* TwitterClient.ts:27-29 and 63-68: the loop test, then either the call *)
(* of waitForNext or the result after the loop                           *)
LoopHead(c, a, r, acq) ==
  IF AttemptAllowed(a, r)
  THEN /\ Enter(c)
       /\ acquires' = [acquires EXCEPT ![c] = acq + 1]
       /\ result' = [result EXCEPT ![c] = NoResult]
  ELSE /\ result' = [result EXCEPT ![c] = FallbackResult]
       /\ acquires' = [acquires EXCEPT ![c] = acq]
       /\ pc' = [pc EXCEPT ![c] = "idle"]
       /\ timers' = Without(timers, c)
       /\ wake' = [wake EXCEPT ![c] = 0]
       /\ UNCHANGED <<limiterVars, tsl, arrival>>

(* TwitterClient.ts:21-29: postTweet is called with retries r *)
PostTweet(c, r) ==
  /\ pc[c] = "idle"
  /\ ~TimerDue
  /\ IF ApiMissing
     THEN /\ result' = [result EXCEPT ![c] = NotAuthenticated]
          /\ attempt' = [attempt EXCEPT ![c] = 0]
          /\ retries' = [retries EXCEPT ![c] = 0]
          /\ acquires' = [acquires EXCEPT ![c] = 0]
          /\ UNCHANGED <<limiterVars, waitVars>>
     ELSE /\ attempt' = [attempt EXCEPT ![c] = 1]
          /\ retries' = [retries EXCEPT ![c] = r]
          /\ LoopHead(c, 1, r, 0)
  /\ netCalls' = [netCalls EXCEPT ![c] = 0]
  /\ gated' = [gated EXCEPT ![c] = FALSE]
  /\ outcomes' = [outcomes EXCEPT ![c] = <<>>]
  /\ UNCHANGED <<now, api, authVars>>

(* TwitterClient.ts:29-35: waitForNext has resolved, api.v2.tweet is sent *)
SendTweet(c) ==
  /\ pc[c] = "granted"
  /\ pc' = [pc EXCEPT ![c] = "tweet"]
  /\ arrival' = Without(arrival, c)
  /\ netCalls' = [netCalls EXCEPT ![c] = @ + 1]
  /\ gated' = [gated EXCEPT ![c] = (pc[c] = "granted")]
  /\ UNCHANGED <<now, limiterVars, tsl, wake, timers, api, attempt, retries,
                 result, acquires, outcomes, authVars>>

(* TwitterClient.ts:37-59: api.v2.tweet has settled with outcome o *)
TweetSettled(c, o) ==
  /\ pc[c] = "tweet"
  /\ outcomes' = [outcomes EXCEPT ![c] = Append(@, o)]
  /\ IF o.kind = "data"
     THEN /\ result' = [result EXCEPT ![c] = SuccessResult(o, now)]
          /\ pc' = [pc EXCEPT ![c] = "idle"]
          /\ UNCHANGED <<wake, timers>>
     ELSE IF LastAttempt(attempt[c], retries[c])
          THEN /\ result' = [result EXCEPT ![c] = ErrorResult(Caught(o))]
               /\ pc' = [pc EXCEPT ![c] = "idle"]
               /\ UNCHANGED <<wake, timers>>
          ELSE /\ pc' = [pc EXCEPT ![c] = "backoff"]
               /\ wake' = [wake EXCEPT ![c] = now + Backoff(attempt[c])]
               /\ timers' = Append(timers, c)
               /\ UNCHANGED result
  /\ UNCHANGED <<now, limiterVars, tsl, arrival, api, attempt, retries,
                 acquires, netCalls, gated, authVars>>

(* TwitterClient.ts:59, 27: the backoff timer has fired, attempt++ *)
BackoffOver(c) ==
  /\ pc[c] = "backoff"
  /\ now >= wake[c]
  /\ FiresNext(c)
  /\ attempt' = [attempt EXCEPT ![c] = @ + 1]
  /\ LoopHead(c, attempt[c] + 1, retries[c], acquires[c])
  /\ UNCHANGED <<now, api, retries, netCalls, gated, outcomes,
                 authVars>>

(* TwitterClient.ts:71-78: deleteTweet is called; api.v2.deleteTweet is sent *)
DeleteTweet(c) ==
  /\ pc[c] = "idle"
  /\ ~TimerDue
  /\ IF ApiMissing
     THEN /\ result' = [result EXCEPT ![c] = NotAuthenticated]
          /\ netCalls' = [netCalls EXCEPT ![c] = 0]
          /\ gated' = [gated EXCEPT ![c] = FALSE]
          /\ UNCHANGED pc
     ELSE /\ result' = [result EXCEPT ![c] = NoResult]
          /\ pc' = [pc EXCEPT ![c] = "deleting"]
          /\ netCalls' = [netCalls EXCEPT ![c] = 1]
          /\ gated' = [gated EXCEPT ![c] = (pc[c] = "granted")]
  /\ attempt' = [attempt EXCEPT ![c] = 0]
  /\ retries' = [retries EXCEPT ![c] = 0]
  /\ acquires' = [acquires EXCEPT ![c] = 0]
  /\ outcomes' = [outcomes EXCEPT ![c] = <<>>]
  /\ UNCHANGED <<now, limiterVars, tsl, wake, timers, arrival, api,
                 authVars>>

(* TwitterClient.ts:78-82: api.v2.deleteTweet has settled *)
DeleteSettled(c, o) ==
  /\ pc[c] = "deleting"
  /\ outcomes' = [outcomes EXCEPT ![c] = Append(@, o)]
  /\ result' = [result EXCEPT ![c] = DeleteResult(o)]
  /\ pc' = [pc EXCEPT ![c] = "idle"]
  /\ UNCHANGED <<now, limiterVars, tsl, wake, timers, arrival, api, attempt,
                 retries, acquires, netCalls, gated, authVars>>

ClientTick == Advance(ClientMaxTime)

(***************************************************************************)
(* The login flow: TwitterUserAuth (spaces/test.ts) over TwitterGuestAuth  *)
(* (__tests__/login.test.ts).  The flow reads no clock: its only timing is *)
(* the setTimeout of a backoff, counted down in ticks of 500 ms.           *)
(***************************************************************************)

(* test.ts:498  executeFlowTask's maxRetries = 3 *)
MaxRetries == 3

(* login calls observed on one TwitterUserAuth *)
MaxLogins == 2

(* test.ts:448  for (let attempts = 1; attempts < 4; attempts += 1) *)
MaxAttempts == 3

FlowTokens == {"f1", "f2"}

(* the subtask ids login and executeFlowTask compare with, and one id     *)
(* they know nothing of                                                   *)
Subtasks ==
  {"LoginJsInstrumentationSubtask", "LoginEnterUserIdentifierSSO",
   "LoginEnterPassword", "AccountDuplicationCheck",
   "LoginTwoFactorAuthChallenge", "LoginSuccessSubtask", "DenyLoginSubtask",
   "LoginPuzzleSubtask"}

(* a cookie of the jar's URL: tough-cookie keeps one cookie for a key *)
Cookie(k, v) == [key |-> k, value |-> v]

(* the cookies a response of the login flow may set *)
CookieChoices == {{}, {Cookie("ct0", "a")}}

(* test.ts:326-337: the keys initLogin passes to removeCookie *)
ClearedCookies ==
  {"twitter_ads_id=", "ads_prefs=", "_twitter_sess=", "zipbox_forms_auth_token=",
   "lang=", "bouncer_reset_cookie=", "twid=", "twitter_ads_idb=", "email_uid=",
   "external_referer=", "ct0=", "aa_u="}

(* test.ts:249-252: the arguments of the secondary posting client *)
KeyNames == {"appKey", "appSecret", "accessToken", "accessSecret"}

(* which of them a login call supplies: none, all but one, all *)
KeyChoices == {{}, KeyNames \ {"accessSecret"}, KeyNames}

(* which arguments of login are non-empty strings *)
LoginArgs ==
  [username : BOOLEAN, password : BOOLEAN, email : BOOLEAN, secret : BOOLEAN,
   keys : {{}}]

(* logins with credentials, with and without a two-factor secret and the  *)
(* keys of the posting client                                             *)
ChallengeArgs ==
  [username : {TRUE}, password : {TRUE}, email : {TRUE}, secret : BOOLEAN,
   keys : KeyChoices]

(* what the guest activation request can end in: fetch rejects, a         *)
(* non-success status, a body without guest_token, a body with a token    *)
(* the platform has not issued before                                     *)
GuestOutcomes ==
  {[kind |-> "throw", text |-> m, token |-> "none"] : m \in Messages}
  \cup {[kind |-> "status", text |-> "unavailable", token |-> "none"]}
  \cup {[kind |-> "null", text |-> "", token |-> "none"]}
  \cup {[kind |-> "missing", text |-> "", token |-> "none"]}
  \cup {[kind |-> "notstring", text |-> "", token |-> "number"]}
  \cup {[kind |-> "ok", text |-> "", token |-> "fresh"]}

(* what a flow request can end in: fetch rejects, a non-success status, a *)
(* body without a string flow_token, a body with a non-empty errors list, *)
(* a body with a flow_token and at most a first subtask                   *)
FlowOutcomes ==
  {[kind |-> "throw", text |-> m, code |-> 0, token |-> "undefined", subtask |-> "none"] :
     m \in Messages}
  \cup {[kind |-> "status", text |-> "unavailable", code |-> 0, token |-> "undefined",
         subtask |-> "none"]}
  \cup {[kind |-> "notoken", text |-> "", code |-> 0, token |-> "undefined",
         subtask |-> "none"]}
  \cup {[kind |-> "errors", text |-> "suspicious", code |-> 399, token |-> "f1",
         subtask |-> "none"]}
  \cup {[kind |-> "ok", text |-> "", code |-> 0, token |-> t, subtask |-> s] :
         t \in FlowTokens, s \in Subtasks \cup {"none"}}

(* what the verify_credentials request can end in: requestApi rejects, it *)
(* reports no success, the body lists errors, the body is a profile       *)
VerifyOutcomes == {"throw", "failure", "errors", "profile"}

(* an Error and its message; code is set by the message of line 564 *)
Plain(m) == [prefix |-> "", code |-> 0, text |-> m]
NoError == Plain("")

(* test.ts:564 *)
AuthenticationError(o) == [prefix |-> "Authentication error", code |-> o.code, text |-> o.text]

(* test.ts:174 FlowTokenResult *)
NoFlow ==
  [status |-> "none", flowToken |-> "undefined", subtask |-> "none", err |-> NoError,
   step |-> "none"]

(* how a call of login stands or settled: wrapped tells that the message  *)
(* is 'Login failed: ' followed by the message of cause                   *)
NoLogin == [kind |-> "none", wrapped |-> FALSE, cause |-> NoError]
Pending == [kind |-> "pending", wrapped |-> FALSE, cause |-> NoError]
Resolved == [kind |-> "resolved", wrapped |-> FALSE, cause |-> NoError]
Rejected(w, e) == [kind |-> "rejected", wrapped |-> w, cause |-> e]

(* fault: the email argument is not looked at *)
CredentialsMissingNoEmail(a) == ~a.username \/ ~a.password

(* test.ts:254 *)
CredentialsMissing(a) == ~a.username \/ ~a.password \/ ~a.email

(* login.test.ts:264 updateCookieJar(jar, headers), imported from          *)
(* ./requests: the cookies of the response are added to the jar, each in  *)
(* the place of the cookie stored under its key                           *)
UpdateCookieJar(j, ck) == {c \in j : \A d \in ck : d.key # c.key} \cup ck

(* fault: the jar is assigned the cookies of the response, so that the    *)
(* last response to arrive is all that is kept                            *)
JarAfterResponseLastWriter(j, o, ck) ==
  IF o.kind = "throw" THEN j ELSE ck

(* fault: the cookies of a response are kept only when the call succeeds *)
JarAfterResponseOfSuccess(j, o, ck) ==
  IF o.kind = "ok" THEN UpdateCookieJar(j, ck) ELSE j

(* login.test.ts:258-266, test.ts:532-541: updateCookieJar is called with *)
(* the headers of every response, before res.ok is read; a fetch that     *)
(* rejects brings no response                                             *)
JarAfterResponse(j, o, ck) ==
  IF o.kind = "throw" THEN j ELSE UpdateCookieJar(j, ck)

(* login.test.ts:227-239: removeCookie deletes the cookie stored under    *)
(* exactly this key                                                       *)
RemoveCookies(j, keys) == {c \in j : c.key \notin keys}

(* login.test.ts:223-225: getCookieString, the cookies as key=value pairs *)
CookieString(j) == {<<c.key, c.value>> : c \in j}

(* login.test.ts:211, test.ts:312: cookies.find(cookie => cookie.key === 'ct0') *)
HasCsrf(j) == \E c \in j : c.key = "ct0"
CsrfValue(j) == (CHOOSE c \in j : c.key = "ct0").value

(* the headers of a flow request that is yet to be sent *)
NoRequest == [cookie |-> {}, csrf |-> "none"]

(* test.ts:527: getCsrfToken, the value of the ct0 cookie of the jar *)
GetCsrfToken(j) == IF HasCsrf(j) THEN CsrfValue(j) ELSE "none"

(* test.ts:508-529: the cookie and x-csrf-token headers executeFlowTask   *)
(* builds before its fetch                                                *)
FlowHeaders(j) == [cookie |-> CookieString(j), csrf |-> GetCsrfToken(j)]

(* fault: a retry sends the headers built for the first attempt *)
RetryHeadersKept(old, j) == old

(* test.ts:545, 561, 573, 583: a retry is a new call of executeFlowTask,  *)
(* which builds its headers again                                         *)
RetryHeaders(old, j) == FlowHeaders(j)

(* fault: deleteToken leaves guestCreatedAt *)
AfterDeleteTokenDated(t, at) == [guestToken |-> 0, guestCreatedAt |-> at]

(* fault: a guest_token that is not a string is stored *)
ActivatedAnyToken(o) == o.kind \in {"ok", "notstring"}

(* login.test.ts:266-278: the response is successful and its body holds a *)
(* string guest_token                                                     *)
Activated(o) == o.kind = "ok"

(* login.test.ts:267, 272, 277: the message of the error updateGuestToken *)
(* throws, or of the error fetch rejected with                            *)
GuestError(o) ==
  CASE o.kind \in {"null", "missing"} -> "guest_token not found."
    [] o.kind = "notstring" -> "guest_token was not a string."
    [] OTHER -> o.text

(* login.test.ts:180-183 *)
AfterDeleteToken(t, at) == [guestToken |-> 0, guestCreatedAt |-> 0]

(* fault: one key is enough *)
AllKeysSuppliedAny(keys) == keys # {}

(* test.ts:288, login.test.ts:168 *)
AllKeysSupplied(keys) == KeyNames \subseteq keys

(* test.ts:503-506 *)
TokenMissing == Plain("Authentication token is null or undefined.")

(* test.ts:464: 2000 * attempts *)
LinearBackoff(att) == 2 * att * Second

(* a response by which the platform rejects the request *)
Rejection(o) == o.kind \in {"status", "errors"}

(* fault: the delay grows by one second per retry *)
FlowBackoffLinear(rc) == (rc + 1) * Second

(* test.ts:544, 559, 572, 583: Math.pow(2, retryCount) * 1000 *)
FlowBackoff(rc) == (2 ^ rc) * Second

(* test.ts:543, 558, 571, 582: the responses after which executeFlowTask  *)
(* waits and calls itself with retryCount + 1                             *)
Retries(o, rc) ==
  /\ rc < MaxRetries
  /\ \/ o.kind \in {"throw", "status", "errors"}
     \/ o.kind = "ok" /\ o.subtask = "DenyLoginSubtask"

(* test.ts:547, 553, 562-565, 576-580, 586-589: what executeFlowTask      *)
(* resolves to when it does not retry                                     *)
FlowTaskResult(o) ==
  CASE o.kind \in {"throw", "status"} ->
         [status |-> "error", flowToken |-> "undefined", subtask |-> "none",
          err |-> Plain(o.text)]
    [] o.kind = "notoken" ->
         [status |-> "error", flowToken |-> "undefined", subtask |-> "none",
          err |-> Plain("Invalid flow token")]
    [] o.kind = "errors" ->
         [status |-> "error", flowToken |-> "undefined", subtask |-> "none",
          err |-> AuthenticationError(o)]
    [] o.kind = "ok" ->
         [status |-> "success", flowToken |-> o.token, subtask |-> o.subtask,
          err |-> NoError]

(* what login does once a flow request has resolved: send the request of  *)
(* a further step, threaded with the flow token of the result, or throw   *)
(* inside the try of line 262, or return                                  *)
SendStep(s, r) == [act |-> "send", step |-> s, token |-> r.flowToken, cause |-> NoError]
Throw(e) == [act |-> "throw", step |-> "none", token |-> "undefined", cause |-> e]
ReturnVoid == [act |-> "return", step |-> "none", token |-> "undefined", cause |-> NoError]

(* test.ts:282-286 *)
AfterChallenges(r) ==
  IF r.subtask = "LoginSuccessSubtask"
  THEN SendStep("success", r)
  ELSE Throw(Plain("Login flow did not complete successfully"))

(* test.ts:277-280 *)
AfterDuplicationCheck(r, secret) ==
  IF r.subtask = "LoginTwoFactorAuthChallenge" /\ secret
  THEN SendStep("LoginTwoFactorAuthChallenge", r)
  ELSE AfterChallenges(r)

(* test.ts:272-275 *)
AfterPassword(r, secret) ==
  IF r.subtask = "AccountDuplicationCheck"
  THEN SendStep("AccountDuplicationCheck", r)
  ELSE AfterDuplicationCheck(r, secret)

(* fault: the result of the success step is examined for 'err' like the   *)
(* others                                                                 *)
ContinueLoginChecked(s, r, secret) ==
  IF s = "init" THEN SendStep("LoginJsInstrumentationSubtask", r)
  ELSE IF r.status = "error" THEN Throw(r.err)
  ELSE IF s = "success" THEN ReturnVoid
  ELSE IF s = "LoginJsInstrumentationSubtask" THEN SendStep("LoginEnterUserIdentifierSSO", r)
  ELSE IF s = "LoginEnterUserIdentifierSSO" THEN SendStep("LoginEnterPassword", r)
  ELSE IF s = "LoginEnterPassword" THEN AfterPassword(r, secret)
  ELSE IF s = "AccountDuplicationCheck" THEN AfterDuplicationCheck(r, secret)
  ELSE AfterChallenges(r)

(* fault: the password is sent before the identifier *)
ContinueLoginSwapped(s, r, secret) ==
  IF s = "init" THEN SendStep("LoginJsInstrumentationSubtask", r)
  ELSE IF s = "success" THEN ReturnVoid
  ELSE IF r.status = "error" THEN Throw(r.err)
  ELSE IF s = "LoginJsInstrumentationSubtask" THEN SendStep("LoginEnterPassword", r)
  ELSE IF s = "LoginEnterPassword" THEN SendStep("LoginEnterUserIdentifierSSO", r)
  ELSE IF s = "LoginEnterUserIdentifierSSO" THEN AfterPassword(r, secret)
  ELSE IF s = "AccountDuplicationCheck" THEN AfterDuplicationCheck(r, secret)
  ELSE AfterChallenges(r)

(* test.ts:260-290: the result of initLogin is handed to the              *)
(* instrumentation step unexamined, the result of the success step is     *)
(* dropped, every other result is examined for 'err' first                *)
ContinueLogin(s, r, secret) ==
  IF s = "init" THEN SendStep("LoginJsInstrumentationSubtask", r)
  ELSE IF s = "success" THEN ReturnVoid
  ELSE IF r.status = "error" THEN Throw(r.err)
  ELSE IF s = "LoginJsInstrumentationSubtask" THEN SendStep("LoginEnterUserIdentifierSSO", r)
  ELSE IF s = "LoginEnterUserIdentifierSSO" THEN SendStep("LoginEnterPassword", r)
  ELSE IF s = "LoginEnterPassword" THEN AfterPassword(r, secret)
  ELSE IF s = "AccountDuplicationCheck" THEN AfterDuplicationCheck(r, secret)
  ELSE AfterChallenges(r)

(* fault: a body that lists errors still counts as logged in *)
IsLoggedInResultLenient(v) == v \in {"profile", "errors"}

(* test.ts:200-219: true only for a successful request whose body lists   *)
(* no errors                                                              *)
IsLoggedInResult(v) == v = "profile"

(* the response that keeps a login on the sequence instrumentation,       *)
(* identifier, password, success                                          *)
Expected(s) ==
  CASE s = "init" -> "LoginJsInstrumentationSubtask"
    [] s = "LoginJsInstrumentationSubtask" -> "LoginEnterUserIdentifierSSO"
    [] s = "LoginEnterUserIdentifierSSO" -> "LoginEnterPassword"
    [] s = "LoginEnterPassword" -> "LoginSuccessSubtask"
    [] OTHER -> "none"

(* test.ts:495-537: executeFlowTask(data) sends its first request *)
StartStep(s, tok) ==
  /\ lpc' = "flow"
  /\ step' = s
  /\ reqToken' = tok
  /\ retryCount' = 0
  /\ requests' = 1
  /\ denied' = TRUE
  /\ rejects' = TRUE
  /\ attempts' = IF s = "LoginTwoFactorAuthChallenge" THEN 1 ELSE 0
  /\ sent' = Append(sent, s)
  /\ reqHeaders' = FlowHeaders(jar')
  /\ timer' = 0
  /\ slept' = 0

(* test.ts:462-464: executeFlowTask threw inside the loop of              *)
(* handleTwoFactorAuthChallenge, whose catch starts a timer               *)
CatchInLoop(att, tok) ==
  /\ lpc' = "linear"
  /\ step' = "LoginTwoFactorAuthChallenge"
  /\ reqToken' = tok
  /\ retryCount' = 0
  /\ attempts' = att
  /\ timer' = LinearBackoff(att)
  /\ slept' = 0
  /\ UNCHANGED reqHeaders

(* login settles *)
Settle(l) ==
  /\ loginResult' = l
  /\ lpc' = "idle"
  /\ UNCHANGED <<step, reqToken, retryCount, requests, sent, timer, slept, attempts,
                 reqHeaders>>

(* test.ts:244-259: login is called; without credentials it throws, else  *)
(* super.login() sends the guest activation request                       *)
Login(a) ==
  /\ lpc = "idle"
  /\ logins < MaxLogins
  /\ logins' = logins + 1
  /\ args' = a
  /\ IF CredentialsMissing(a)
     THEN /\ loginResult' = Rejected(FALSE, Plain("Twitter credentials not available"))
          /\ lpc' = "idle"
     ELSE /\ loginResult' = Pending
          /\ lpc' = "guest"
  /\ flow' = NoFlow
  /\ step' = "none"
  /\ reqToken' = "undefined"
  /\ retryCount' = 0
  /\ requests' = 0
  /\ denied' = TRUE
  /\ rejects' = TRUE
  /\ attempts' = 0
  /\ timer' = 0
  /\ slept' = 0
  /\ sent' = <<>>
  /\ reqHeaders' = NoRequest
  /\ onScript' = TRUE
  /\ loggedIn' = "none"
  /\ verified' = "none"
  /\ UNCHANGED <<guestToken, jar, sessionVars, posterVars, taskVars>>

(* login.test.ts:250-282, test.ts:259-260 and 324-349: the guest          *)
(* activation request has settled; on success initLogin removes its       *)
(* cookies and sends the flow-init request; a failure leaves login by the *)
(* try of line 258, which has no handler                                  *)
GuestSettled(o, ck) ==
  /\ lpc = "guest"
  /\ received' = IF o.kind = "throw" THEN received ELSE received \cup ck
  /\ IF Activated(o)
     THEN /\ guestToken' = logins
          /\ guestCreatedAt' = now
          /\ jar' = RemoveCookies(JarAfterResponse(jar, o, ck), ClearedCookies)
          /\ StartStep("init", "undefined")
          /\ UNCHANGED loginResult
     ELSE /\ jar' = JarAfterResponse(jar, o, ck)
          /\ loginResult' = Rejected(FALSE, Plain(GuestError(o)))
          /\ lpc' = "idle"
          /\ UNCHANGED <<guestToken, guestCreatedAt, step, reqToken, retryCount,
                         requests, denied, rejects, attempts, sent, timer, slept,
                         reqHeaders>>
  /\ UNCHANGED <<args, logins, flow, loggedIn, onScript, verified, v2Client,
                 posterVars, taskVars>>

(* test.ts:531-590 and 260-293: a flow request has settled with o; either *)
(* executeFlowTask sets its backoff timer, or it resolves and login goes  *)
(* on to its next request, which throws without a guest token, or settles *)
FlowSettled(o, ck) ==
  /\ lpc = "flow"
  /\ jar' = JarAfterResponse(jar, o, ck)
  /\ received' = IF o.kind = "throw" THEN received ELSE received \cup ck
  /\ IF Retries(o, retryCount)
     THEN /\ lpc' = "backoff"
          /\ timer' = FlowBackoff(retryCount)
          /\ slept' = 0
          /\ denied' = (denied /\ o.subtask = "DenyLoginSubtask")
          /\ rejects' = (rejects /\ (attempts > 0 => Rejection(o)))
          /\ onScript' = FALSE
          /\ UNCHANGED <<step, reqToken, retryCount, requests, sent, flow, loginResult,
                         attempts, v2Client, reqHeaders>>
     ELSE LET r == FlowTaskResult(o)
              d == denied /\ o.subtask = "DenyLoginSubtask"
              todo == ContinueLogin(step, r, args.secret)
          IN  /\ flow' = [status |-> r.status, flowToken |-> r.flowToken,
                          subtask |-> r.subtask, err |-> r.err, step |-> step]
              /\ onScript' = (/\ onScript
                              /\ r.status = "success"
                              /\ step # "success" => r.subtask = Expected(step))
              /\ IF todo.act = "send" /\ guestToken # 0
                 THEN /\ StartStep(todo.step, todo.token)
                      /\ UNCHANGED <<loginResult, v2Client>>
                 ELSE IF todo.act = "send" /\ todo.step = "LoginTwoFactorAuthChallenge"
                 THEN /\ CatchInLoop(1, todo.token)
                      /\ requests' = 0
                      /\ denied' = TRUE
                      /\ rejects' = TRUE
                      /\ UNCHANGED <<sent, loginResult, v2Client>>
                 ELSE /\ Settle(IF todo.act = "send" THEN Rejected(TRUE, TokenMissing)
                                ELSE IF todo.act = "throw" THEN Rejected(TRUE, todo.cause)
                                ELSE Resolved)
                      /\ v2Client' = (v2Client \/ (/\ todo.act = "return"
                                                   /\ AllKeysSupplied(args.keys)))
                      /\ denied' = d
                      /\ UNCHANGED rejects
  /\ UNCHANGED <<args, logins, guestToken, guestCreatedAt, loggedIn, verified,
                 posterVars, taskVars>>

(* test.ts:544-545: the backoff timer has fired; executeFlowTask calls    *)
(* itself with retryCount + 1 and sends the same request again; without a *)
(* guest token the call throws, into the two-factor loop or out of login  *)
FlowRetry ==
  /\ lpc = "backoff"
  /\ timer <= 0
  /\ IF guestToken # 0
     THEN /\ lpc' = "flow"
          /\ retryCount' = retryCount + 1
          /\ requests' = requests + 1
          /\ reqHeaders' = RetryHeaders(reqHeaders, jar)
          /\ UNCHANGED <<step, reqToken, timer, slept, attempts, loginResult>>
     ELSE IF attempts > 0
     THEN /\ CatchInLoop(attempts, reqToken)
          /\ UNCHANGED <<requests, loginResult>>
     ELSE /\ loginResult' = Rejected(step # "init", TokenMissing)
          /\ lpc' = "idle"
          /\ UNCHANGED <<step, reqToken, retryCount, requests, timer, slept, attempts,
                         reqHeaders>>
  /\ UNCHANGED <<args, logins, guestToken, jar, flow, loggedIn, denied, rejects, sent,
                 onScript, verified, sessionVars, posterVars, taskVars>>

(* test.ts:448-467: the timer of the two-factor loop has fired; the loop  *)
(* generates a code and calls executeFlowTask again, or is over and       *)
(* throws the error it caught                                             *)
TwoFactorRetry ==
  /\ lpc = "linear"
  /\ timer <= 0
  /\ IF attempts < MaxAttempts
     THEN IF guestToken # 0
          THEN /\ lpc' = "flow"
               /\ attempts' = attempts + 1
               /\ requests' = requests + 1
               /\ reqHeaders' = FlowHeaders(jar)
               /\ UNCHANGED <<step, reqToken, retryCount, timer, slept, loginResult>>
          ELSE /\ CatchInLoop(attempts + 1, reqToken)
               /\ UNCHANGED <<requests, loginResult>>
     ELSE /\ loginResult' = Rejected(TRUE, TokenMissing)
          /\ lpc' = "idle"
          /\ UNCHANGED <<step, reqToken, retryCount, requests, timer, slept, attempts,
                         reqHeaders>>
  /\ UNCHANGED <<args, logins, guestToken, jar, flow, loggedIn, denied, rejects, sent,
                 onScript, verified, sessionVars, posterVars, taskVars>>

(* a tick of 500 ms passes while a timer of the login is pending *)
FlowTick ==
  /\ lpc \in {"backoff", "linear"}
  /\ timer > 0 - MaxLate
  /\ timer' = timer - 1
  /\ slept' = slept + 1
  /\ UNCHANGED <<lpc, args, logins, guestToken, jar, step, reqToken, retryCount,
                 flow, loginResult, loggedIn, requests, denied, sent, onScript,
                 verified, attempts, rejects, reqHeaders, sessionVars, posterVars,
                 taskVars>>

(* test.ts:200-205: isLoggedIn sends the verify_credentials request *)
IsLoggedIn ==
  /\ lpc = "idle"
  /\ lpc' = "verify"
  /\ loggedIn' = "none"
  /\ verified' = "none"
  /\ UNCHANGED <<args, logins, guestToken, jar, step, reqToken, retryCount, timer,
                 flow, loginResult, requests, denied, slept, sent, onScript,
                 attempts, rejects, reqHeaders, sessionVars, posterVars, taskVars>>

(* test.ts:206-218, TwitterClient.ts:17-19: the request has settled with  *)
(* v, isLoggedIn returns and isAuthenticated returns the same             *)
VerifySettled(v) ==
  /\ lpc = "verify"
  /\ lpc' = "idle"
  /\ verified' = v
  /\ loggedIn' = IF IsLoggedInResult(v) THEN "true" ELSE "false"
  /\ UNCHANGED <<args, logins, guestToken, jar, step, reqToken, retryCount, timer,
                 flow, loginResult, requests, denied, slept, sent, onScript,
                 attempts, rejects, reqHeaders, sessionVars, posterVars, taskVars>>

(***************************************************************************)
(* The session: the operations on the fields of TwitterGuestAuth           *)
(* (login.test.ts), inherited or overridden by TwitterUserAuth, called by  *)
(* tasks that interleave at each network request.                          *)
(***************************************************************************)

(* the tasks that use the session *)
SessionTasks == {"s1", "s2"}

(* login.test.ts:293  3 * 60 * 60 * 1000 ms *)
ThreeHours == 3 * 60 * 60 * Second

(* the clock of the session is observed for SessionHorizon ticks from    *)
(* the start and for as many three hours later                            *)
SessionHorizon == 1

SessionTimes == {StartTime + a + b * ThreeHours : a \in 0..SessionHorizon, b \in 0..1}

SessionMaxTime == StartTime + SessionHorizon + ThreeHours

(* how far the clock moves between two steps of the session *)
Elapses == {1, ThreeHours}

(* operations called on one session *)
MaxOps == 3

(* the cookies a guest activation response may set *)
SessionCookieChoices == {{}, {Cookie("ct0", "a")}, {Cookie("guest_id", "g")}}

(* the keys a guest login call supplies *)
SessionKeyChoices == {{}, KeyNames}

(* the guest_token of a response differs from the one stored *)
FreshToken(old) == IF old = 1 THEN 2 ELSE 1

(* a task's Headers object before installTo has set anything *)
NoHeaders ==
  [authorization |-> "none", guest |-> 0, csrf |-> "none", cookie |-> {},
   cookieSet |-> FALSE]

NoOp == [name |-> "none", keys |-> {}]
Op(n) == [name |-> n, keys |-> {}]

(* how an operation settled: which, of which task, resolved or rejected   *)
(* with which message, after which response                               *)
NoSettle == [task |-> "none", op |-> "none", kind |-> "none", text |-> "", response |-> "none"]
Returned(t, n, o) == [task |-> t, op |-> n, kind |-> "resolved", text |-> "", response |-> o]
Thrown(t, n, m, o) == [task |-> t, op |-> n, kind |-> "rejected", text |-> m, response |-> o]

(* fault: every call of installTo renews the token *)
ShouldUpdateAlways(tok, at, t) == TRUE

(* fault: a token of exactly three hours is renewed *)
ShouldUpdateFromThreeHours(tok, at, t) == tok = 0 \/ (at # 0 /\ at <= t - ThreeHours)

(* login.test.ts:288-295 *)
ShouldUpdate(tok, at, t) == tok = 0 \/ (at # 0 /\ at < t - ThreeHours)

(* fault: without a ct0 cookie the header is set to the empty string *)
InstallCsrfTokenInvented(h, j) == IF HasCsrf(j) THEN CsrfValue(j) ELSE ""

(* login.test.ts:210-214, test.ts:310-316 *)
InstallCsrfToken(h, j) == IF HasCsrf(j) THEN CsrfValue(j) ELSE h.csrf

(* login.test.ts:207-216: the headers TwitterGuestAuth.installTo sets *)
InstallGuest(h, tok, j) ==
  [authorization |-> "Bearer", guest |-> tok, csrf |-> InstallCsrfToken(h, j),
   cookie |-> CookieString(j), cookieSet |-> TRUE]

(* test.ts:318-322: the headers TwitterUserAuth.installTo sets *)
InstallUser(h, j) ==
  [authorization |-> "Bearer", guest |-> h.guest, csrf |-> InstallCsrfToken(h, j),
   cookie |-> CookieString(j), cookieSet |-> TRUE]

(* a task calls an operation of the session *)
Calls(t) ==
  /\ spc[t] = "idle"
  /\ ops < MaxOps
  /\ ops' = ops + 1

(* login.test.ts:250-262: updateGuestToken sends the activation request *)
Activate(t, o) ==
  /\ spc' = [spc EXCEPT ![t] = "refresh"]
  /\ sop' = [sop EXCEPT ![t] = o]
  /\ overlapped' = (overlapped \/ \E u \in SessionTasks : spc[u] = "refresh")

(* login.test.ts:197-217: TwitterGuestAuth.installTo; with a token that   *)
(* needs no update it sets the headers and returns                        *)
InstallTo(t) ==
  /\ Calls(t)
  /\ IF ShouldUpdate(guestToken, guestCreatedAt, now)
     THEN /\ Activate(t, Op("installTo"))
          /\ UNCHANGED <<headers, sresult>>
     ELSE /\ headers' = [headers EXCEPT ![t] = InstallGuest(@, guestToken, jar)]
          /\ sresult' = Returned(t, "installTo", "none")
          /\ UNCHANGED <<spc, sop, overlapped>>
  /\ UNCHANGED <<guestToken, jar, sessionVars, posterVars, flowVars>>

(* login.test.ts:157-167: TwitterGuestAuth.login *)
GuestLogin(t, k) ==
  /\ Calls(t)
  /\ Activate(t, [name |-> "login", keys |-> k])
  /\ UNCHANGED <<guestToken, jar, sessionVars, headers, sresult, posterVars, flowVars>>

(* login.test.ts:264-282, 168-171, 202-216: the activation request of t   *)
(* has settled; updateGuestToken stores the token or throws, and a login  *)
(* or installTo that awaited it goes on                                   *)
ActivateSettled(t, o, ck) ==
  /\ spc[t] = "refresh"
  /\ spc' = [spc EXCEPT ![t] = "idle"]
  /\ sop' = [sop EXCEPT ![t] = NoOp]
  /\ jar' = JarAfterResponse(jar, o, ck)
  /\ received' = IF o.kind = "throw" THEN received ELSE received \cup ck
  /\ IF Activated(o)
     THEN /\ guestToken' = FreshToken(guestToken)
          /\ guestCreatedAt' = now
          /\ sresult' = Returned(t, sop[t].name, o.kind)
          /\ headers' = IF sop[t].name = "installTo"
                        THEN [headers EXCEPT
                                ![t] = InstallGuest(@, FreshToken(guestToken), jar')]
                        ELSE headers
          /\ v2Client' = (v2Client \/ (/\ sop[t].name = "login"
                                       /\ AllKeysSupplied(sop[t].keys)))
     ELSE /\ sresult' = Thrown(t, sop[t].name, GuestError(o), o.kind)
          /\ UNCHANGED <<guestToken, guestCreatedAt, headers, v2Client>>
  /\ UNCHANGED <<ops, overlapped, posterVars, flowVars>>

(* login.test.ts:180-183: deleteToken *)
DeleteToken(t) ==
  /\ Calls(t)
  /\ guestToken' = AfterDeleteToken(guestToken, guestCreatedAt).guestToken
  /\ guestCreatedAt' = AfterDeleteToken(guestToken, guestCreatedAt).guestCreatedAt
  /\ sresult' = Returned(t, "deleteToken", "none")
  /\ UNCHANGED <<jar, v2Client, received, spc, sop, headers, overlapped, posterVars,
                 flowVars>>

(* login.test.ts:174-178: TwitterGuestAuth.logout *)
Logout(t) ==
  /\ Calls(t)
  /\ guestToken' = AfterDeleteToken(guestToken, guestCreatedAt).guestToken
  /\ guestCreatedAt' = AfterDeleteToken(guestToken, guestCreatedAt).guestCreatedAt
  /\ jar' = {}
  /\ received' = {}
  /\ overlapped' = FALSE
  /\ sresult' = Returned(t, "logout", "none")
  /\ UNCHANGED <<v2Client, spc, sop, headers, posterVars, flowVars>>

(* test.ts:296-305: TwitterUserAuth.logout; the promise of isLoggedIn is  *)
(* never falsy, so the logout request is sent                             *)
UserLogout(t) ==
  /\ Calls(t)
  /\ spc' = [spc EXCEPT ![t] = "logout"]
  /\ sop' = [sop EXCEPT ![t] = Op("userLogout")]
  /\ UNCHANGED <<guestToken, jar, sessionVars, headers, sresult, overlapped,
                 posterVars, flowVars>>

(* what the logout request can end in: requestApi resolves with success,  *)
(* it resolves with success false as at test.ts:206, it rejects           *)
LogoutOutcomes == {"ok", "failure", "throw"}

(* fault: the session is cleared only when the request succeeded *)
LogoutClearsOnSuccess(o) == o = "ok"

(* test.ts:301-307: what requestApi resolves to is not looked at; only    *)
(* its rejection leaves logout before lines 306-307                       *)
LogoutClears(o) == o # "throw"

(* test.ts:301-307: the logout request has settled; requestApi throwing   *)
(* leaves logout before the token is deleted                              *)
UserLogoutSettled(t, o) ==
  /\ spc[t] = "logout"
  /\ spc' = [spc EXCEPT ![t] = "idle"]
  /\ sop' = [sop EXCEPT ![t] = NoOp]
  /\ IF LogoutClears(o)
     THEN /\ guestToken' = AfterDeleteToken(guestToken, guestCreatedAt).guestToken
          /\ guestCreatedAt' = AfterDeleteToken(guestToken, guestCreatedAt).guestCreatedAt
          /\ jar' = {}
          /\ received' = {}
          /\ overlapped' = FALSE
          /\ sresult' = Returned(t, "userLogout", o)
     ELSE /\ sresult' = Thrown(t, "userLogout", "timeout", o)
          /\ UNCHANGED <<guestToken, guestCreatedAt, jar, received, overlapped>>
  /\ UNCHANGED <<v2Client, headers, ops, posterVars, flowVars>>

(* test.ts:318-322: TwitterUserAuth.installTo *)
UserInstallTo(t) ==
  /\ Calls(t)
  /\ headers' = [headers EXCEPT ![t] = InstallUser(@, jar)]
  /\ sresult' = Returned(t, "userInstallTo", "none")
  /\ UNCHANGED <<guestToken, jar, sessionVars, spc, sop, overlapped, posterVars,
                 flowVars>>

(* time passes for the session *)
Elapse(d) ==
  /\ now + d \in SessionTimes
  /\ now' = now + d
  /\ UNCHANGED <<limiterVars, waitVars, clientVars, authVars>>

(* the session after construction *)
SessionInit ==
  /\ guestCreatedAt = 0
  /\ v2Client = FALSE
  /\ received = {}
  /\ overlapped = FALSE
  /\ ops = 0
  /\ spc = [t \in SessionTasks |-> "idle"]
  /\ sop = [t \in SessionTasks |-> NoOp]
  /\ headers = [t \in SessionTasks |-> NoHeaders]
  /\ sresult = NoSettle

(* the TwitterUserAuth after construction *)
LoginInit ==
  /\ lpc = "idle"
  /\ args = [username |-> TRUE, password |-> TRUE, email |-> TRUE, secret |-> FALSE,
             keys |-> {}]
  /\ logins = 0
  /\ guestToken = 0
  /\ jar = {}
  /\ step = "none"
  /\ reqToken = "undefined"
  /\ retryCount = 0
  /\ timer = 0
  /\ flow = NoFlow
  /\ loginResult = NoLogin
  /\ loggedIn = "none"
  /\ requests = 0
  /\ denied = TRUE
  /\ slept = 0
  /\ sent = <<>>
  /\ onScript = TRUE
  /\ verified = "none"
  /\ attempts = 0
  /\ rejects = TRUE
  /\ reqHeaders = NoRequest

Init ==
  /\ now = StartTime
  /\ lastRequest = 0
  /\ requestCount = 0
  /\ pc = [c \in Callers |-> "idle"]
  /\ tsl = [c \in Callers |-> 0]
  /\ wake = [c \in Callers |-> 0]
  /\ timers = <<>>
  /\ api = FALSE
  /\ attempt = [c \in Callers |-> 0]
  /\ retries = [c \in Callers |-> 0]
  /\ result = [c \in Callers |-> NoResult]
  /\ grantLog = <<>>
  /\ arrival = <<>>
  /\ acquires = [c \in Callers |-> 0]
  /\ netCalls = [c \in Callers |-> 0]
  /\ gated = [c \in Callers |-> FALSE]
  /\ outcomes = [c \in Callers |-> <<>>]
  /\ LoginInit
  /\ SessionInit

Next ==
  \/ Tick
  \/ \E c \in Callers : Call(c)
  \/ \E c \in Callers : ResumeMinDelay(c)
  \/ \E c \in Callers : ResumeWindow(c)
  \/ \E c \in Callers : Return(c)

(* concurrent callers of one RateLimiter *)
Spec == Init /\ [][Next]_vars

(* sequential callers: a call is issued only after the previous returned *)
SeqCall(c) ==
  /\ \A d \in Callers : pc[d] = "idle"
  /\ Call(c)

SeqNext ==
  \/ Tick
  \/ \E c \in Callers : SeqCall(c)
  \/ \E c \in Callers : ResumeMinDelay(c)
  \/ \E c \in Callers : ResumeWindow(c)
  \/ \E c \in Callers : Return(c)

SpecSeq == Init /\ [][SeqNext]_vars

(* the tasks whose calls are followed to their grant *)
LiveCallers == {"a", "b"}

(* calls are issued during the first LiveHorizon ticks *)
LiveHorizon == 5

(* the latest expiry of a timer of a call issued by then: one minimum     *)
(* delay, fired at most MaxLate late, and one window later                *)
LiveMaxTime == StartTime + LiveHorizon + minDelay + MaxLate + timeWindow

LiveCall(c) ==
  /\ now <= StartTime + LiveHorizon
  /\ Call(c)

LiveTick == Advance(LiveMaxTime)

LiveNext ==
  \/ LiveTick
  \/ \E c \in LiveCallers : LiveCall(c)
  \/ \E c \in LiveCallers : ResumeMinDelay(c)
  \/ \E c \in LiveCallers : ResumeWindow(c)
  \/ \E c \in LiveCallers : Return(c)

(* timers fire: the clock advances and the callback of an expired timer   *)
(* is run                                                                 *)
TimersFire ==
  /\ WF_vars(LiveTick)
  /\ \A c \in LiveCallers : WF_vars(ResumeMinDelay(c)) /\ WF_vars(ResumeWindow(c))

(* concurrent callers of one RateLimiter whose timers fire *)
SpecLive == Init /\ [][LiveNext]_vars /\ TimersFire

ClientNext ==
  \/ ClientTick
  \/ \E c \in ClientCallers, t \in ApiOutcomes : Initialize(c, t)
  \/ \E c \in ClientCallers, r \in RetriesArgs : PostTweet(c, r)
  \/ \E c \in ClientCallers : ResumeMinDelay(c)
  \/ \E c \in ClientCallers : ResumeWindow(c)
  \/ \E c \in ClientCallers : SendTweet(c)
  \/ \E c \in ClientCallers, o \in TweetOutcomes : TweetSettled(c, o)
  \/ \E c \in ClientCallers : BackoffOver(c)
  \/ \E c \in ClientCallers : DeleteTweet(c)
  \/ \E c \in ClientCallers, o \in DeleteOutcomes : DeleteSettled(c, o)

(* tasks posting and deleting through one TwitterClient *)
SpecClient == Init /\ [][ClientNext]_vars

LoginNext ==
  \/ \E a \in LoginArgs : Login(a)
  \/ \E o \in GuestOutcomes, ck \in CookieChoices : GuestSettled(o, ck)
  \/ \E o \in FlowOutcomes, ck \in CookieChoices : FlowSettled(o, ck)
  \/ FlowRetry
  \/ FlowTick
  \/ IsLoggedIn
  \/ \E v \in VerifyOutcomes : VerifySettled(v)

(* login and isLoggedIn calls on one TwitterUserAuth, one at a time *)
SpecLogin == Init /\ [][LoginNext]_vars

(* the responses of the platform to the logins of ChallengeNext *)
ChallengeOutcomes == {o \in FlowOutcomes : o.token # "f2" /\ o.text # "forbidden"}

(* deleteToken is called while a login awaits a flow request or a timer *)
DeletedMeanwhile ==
  /\ lpc \in {"flow", "backoff"}
  /\ guestToken # 0
  /\ DeleteToken("s1")

ChallengeNext ==
  \/ \E a \in ChallengeArgs : Login(a)
  \/ \E o \in GuestOutcomes : GuestSettled(o, {})
  \/ \E o \in ChallengeOutcomes : FlowSettled(o, {})
  \/ FlowRetry
  \/ TwoFactorRetry
  \/ FlowTick
  \/ DeletedMeanwhile

(* logins with credentials on one TwitterUserAuth whose guest token may   *)
(* be deleted meanwhile                                                   *)
SpecChallenge == Init /\ [][ChallengeNext]_vars

(* the responses of the platform to the guest activations of SessionNext *)
SessionOutcomes == {o \in GuestOutcomes : o.text # "forbidden"}

(* the cookies the responses to one task set: those of two tasks are     *)
(* disjoint                                                               *)
CookiesFor(t) ==
  IF t = "s1" THEN {{}, {Cookie("ct0", "a")}} ELSE {{}, {Cookie("guest_id", "g")}}

SessionNext ==
  \/ \E d \in Elapses : Elapse(d)
  \/ InstallTo("s1")
  \/ \E k \in SessionKeyChoices : GuestLogin("s2", k)
  \/ \E t \in SessionTasks, o \in SessionOutcomes :
       \E ck \in CookiesFor(t) : ActivateSettled(t, o, ck)
  \/ DeleteToken("s1")
  \/ Logout("s1")
  \/ UserLogout("s1")
  \/ \E o \in LogoutOutcomes : UserLogoutSettled("s1", o)
  \/ UserInstallTo("s1")

(* a task that installs headers, deletes the token and logs out, and a   *)
(* task that logs in as guest, on one session                             *)
SpecSession == Init /\ [][SessionNext]_vars

(* a login with credentials, without secret and keys *)
RotateArgs ==
  {[username |-> TRUE, password |-> TRUE, email |-> TRUE, secret |-> FALSE, keys |-> {}]}

(* the cookies a response may set when the platform rotates ct0 *)
RotateCookieChoices == {{}, {Cookie("ct0", "a")}, {Cookie("ct0", "b")}}

(* the responses of the platform to the logins of RotateNext: the guest   *)
(* activation succeeds or not, a flow request is refused or answered with *)
(* a subtask                                                              *)
RotateGuestOutcomes == {o \in GuestOutcomes : o.kind \in {"status", "ok"}}
RotateOutcomes ==
  {o \in FlowOutcomes : o.kind = "status" \/ (o.kind = "ok" /\ o.token = "f1")}

RotateNext ==
  \/ \E a \in RotateArgs : Login(a)
  \/ \E o \in RotateGuestOutcomes, ck \in RotateCookieChoices : GuestSettled(o, ck)
  \/ \E o \in RotateOutcomes, ck \in RotateCookieChoices : FlowSettled(o, ck)
  \/ FlowRetry
  \/ FlowTick

(* logins on one TwitterUserAuth while the platform rotates the ct0      *)
(* cookie                                                                 *)
SpecRotate == Init /\ [][RotateNext]_vars

(***************************************************************************)
(* Properties                                                              *)
(***************************************************************************)

Present(field) == Len(field) = 1

(* the message the catch clause of postTweet sees for outcome o *)
FailureMessage(o) == IF o.kind = "nodata" THEN "Failed to create tweet" ELSE o.message

LastOutcome(c) == outcomes[c][Len(outcomes[c])]

(* C1: with sequential callers any maxRequests+1 consecutive grants span  *)
(* at least timeWindow: at most maxRequests grants fall in one window     *)
C1_SeqCeiling ==
  Len(grantLog) = maxRequests + 1 =>
    grantLog[maxRequests + 1] - grantLog[1] >= timeWindow

(* maxRequests+1 grants have been made, the last after a window wait *)
C1_Witness ==
  /\ Len(grantLog) = maxRequests + 1
  /\ requestCount = 1
  /\ \E c \in Callers : pc[c] = "granted"

C2_Apart ==
  \A i \in 1..(Len(grantLog) - 1) : grantLog[i + 1] - grantLog[i] >= minDelay

C2_CallStep ==
  \A c \in Callers :
    (pc[c] = "idle" /\ pc'[c] # "idle") =>
      LET t == now - lastRequest
      IN  /\ t < minDelay =>
               /\ pc'[c] = "minDelay"
               /\ wake'[c] = now + (minDelay - t)
               /\ UNCHANGED <<lastRequest, requestCount>>
          /\ (t >= minDelay /\ requestCount < maxRequests) =>
               /\ pc'[c] = "granted"
               /\ lastRequest' = now

(* C2: with sequential callers a call issued less than minDelay after the *)
(* previous grant is suspended for the remaining delta, consecutive       *)
(* grants are at least minDelay apart, and a call issued minDelay or more *)
(* after the previous grant, below the ceiling, is granted at once        *)
C2_SeqMinDelay == []C2_Apart /\ [][C2_CallStep]_vars

(* a call issued one tick after a grant was granted one tick later *)
C2_Witness ==
  /\ Len(grantLog) >= 2
  /\ grantLog[Len(grantLog)] - grantLog[Len(grantLog) - 1] = minDelay
  /\ \E c \in Callers : pc[c] = "granted" /\ now = lastRequest

(* C3: with concurrent callers no two grants, to any two callers, are     *)
(* less than minDelay apart                                               *)
C3_ConcurrentMinDelay ==
  \A i \in 1..(Len(grantLog) - 1) :
    \A j \in (i + 1)..Len(grantLog) : grantLog[j] - grantLog[i] >= minDelay

(* C4: with concurrent callers at most maxRequests grants occur within    *)
(* one timeWindow, also when several callers wait out the window at once  *)
C4_ConcurrentCeiling ==
  \A i \in 1..Len(grantLog) :
    \A j \in i..Len(grantLog) :
      j - i >= maxRequests => grantLog[j] - grantLog[i] >= timeWindow

(* C5: grants are FIFO: no caller is granted while a caller that called   *)
(* waitForNext before it is still suspended                               *)
C5_Fifo ==
  \A i \in 1..Len(arrival) :
    \A j \in (i + 1)..Len(arrival) :
      ~(pc[arrival[j]] = "granted" /\ pc[arrival[i]] \in Suspended)

(* C6: a response returned by postTweet has exactly one of data and       *)
(* errors, and errors, when present, is a non-empty list                  *)
C6_DataXorErrors ==
  \A c \in ClientCallers :
    result[c].kind = "response" =>
      /\ Present(result[c].data) # Present(result[c].errors)
      /\ Present(result[c].errors) => Len(result[c].errors[1]) >= 1

(* an error result returned after a retried attempt *)
C6_Witness ==
  \E c \in ClientCallers :
    /\ result[c].kind = "response"
    /\ Present(result[c].errors)
    /\ netCalls[c] >= 2

(* C7: when an attempt of postTweet gets a response with data, postTweet  *)
(* returns a success carrying that response's id and text and no errors,  *)
(* and makes no further attempt                                           *)
C7_SuccessOnAttempt ==
  \A c \in ClientCallers :
    (outcomes[c] # <<>> /\ LastOutcome(c).kind = "data") =>
      /\ pc[c] = "idle"
      /\ result[c].kind = "response"
      /\ Present(result[c].data)
      /\ result[c].data[1].id = LastOutcome(c).id
      /\ result[c].data[1].text = LastOutcome(c).text
      /\ ~Present(result[c].errors)
      /\ netCalls[c] = attempt[c]
      /\ Len(outcomes[c]) = attempt[c]
      /\ AttemptAllowed(attempt[c], retries[c])

(* retries = 3: two failed attempts, then a response with data *)
C7_Witness ==
  \E c \in ClientCallers :
    /\ retries[c] = 6
    /\ Len(outcomes[c]) = 3
    /\ outcomes[c][1].kind # "data"
    /\ outcomes[c][2].kind # "data"
    /\ outcomes[c][3].kind = "data"
    /\ Present(result[c].data)

(* C8: when all retries attempts of postTweet fail it does not throw: it  *)
(* returns an error result with a single error whose message is that of   *)
(* the last failure                                                       *)
C8_LastFailure ==
  \A c \in ClientCallers :
    (/\ pc[c] = "idle"
     /\ outcomes[c] # <<>>
     /\ 2 * Len(outcomes[c]) = retries[c]
     /\ \A k \in 1..Len(outcomes[c]) : outcomes[c][k].kind # "data") =>
      /\ result[c].kind = "response"
      /\ ~Present(result[c].data)
      /\ Present(result[c].errors)
      /\ Len(result[c].errors[1]) = 1
      /\ result[c].errors[1][1].message = FailureMessage(LastOutcome(c))

(* retries = 3: three failures with pairwise different messages *)
C8_Witness ==
  \E c \in ClientCallers :
    /\ pc[c] = "idle"
    /\ retries[c] = 6
    /\ Len(outcomes[c]) = 3
    /\ \A k \in 1..3 : outcomes[c][k].kind # "data"
    /\ FailureMessage(outcomes[c][3]) # FailureMessage(outcomes[c][2])
    /\ FailureMessage(outcomes[c][3]) # FailureMessage(outcomes[c][1])
    /\ Present(result[c].errors)

C9_Faulted ==
  \A c \in ClientCallers :
    result[c].kind = "fault" =>
      /\ result[c].message = "Not authenticated. Call initialize() first."
      /\ pc[c] = "idle"
      /\ acquires[c] = 0
      /\ netCalls[c] = 0

C9_CallStep ==
  \A c \in ClientCallers :
    (/\ ~api
     /\ pc[c] = "idle"
     /\ <<pc[c], result[c], attempt[c], acquires[c], netCalls[c]>>'
          # <<pc[c], result[c], attempt[c], acquires[c], netCalls[c]>>
     /\ result'[c].kind \notin {"resolved", "rejected"}) =>
      /\ result'[c].kind = "fault"
      /\ pc'[c] = "idle"
      /\ acquires'[c] = 0
      /\ netCalls'[c] = 0
      /\ UNCHANGED <<lastRequest, requestCount, grantLog, arrival>>

(* C9: postTweet and deleteTweet called while auth.getApi() is null throw *)
(* 'Not authenticated' without calling waitForNext, without a transport   *)
(* call, and leave the rate limiter's state unchanged                     *)
C9_NotAuthenticated == []C9_Faulted /\ [][C9_CallStep]_vars

(* a call has thrown the fault *)
C9_Witness ==
  \E c \in ClientCallers : ~api /\ result[c].kind = "fault"

(* C10: every transport call of the posting client, a postTweet attempt   *)
(* or a deleteTweet call, follows its own completed waitForNext           *)
C10_Gated ==
  \A c \in ClientCallers : pc[c] \in {"tweet", "deleting"} => gated[c]

(* C11: deleteTweet on an initialized client makes exactly one transport  *)
(* call, with no retry and no backoff timer, returns true when that call  *)
(* resolved and false when it rejected, and the caller never sees the     *)
(* error: nothing is thrown and the result carries no message             *)
C11_DeleteOnce ==
  \A c \in ClientCallers :
    /\ pc[c] = "deleting" =>
         /\ netCalls[c] = 1
         /\ outcomes[c] = <<>>
         /\ c \notin {timers[i] : i \in 1..Len(timers)}
    /\ (outcomes[c] # <<>> /\ LastOutcome(c) \in DeleteOutcomes) =>
         /\ pc[c] = "idle"
         /\ netCalls[c] = 1
         /\ Len(outcomes[c]) = 1
         /\ acquires[c] = 0
         /\ result[c].kind = "deleted"
         /\ result[c].ok = (LastOutcome(c).kind = "done")
         /\ result[c].message = ""
         /\ ~Present(result[c].errors)

(* a deletion whose transport call rejected has returned false *)
C11_Witness ==
  \E c \in ClientCallers :
    /\ api
    /\ outcomes[c] # <<>>
    /\ LastOutcome(c).kind = "failed"
    /\ result[c].kind = "deleted"
    /\ ~result[c].ok

(* C12: initialize calls auth.login() once and settles as that call does: *)
(* it resolves when login resolves, and when login rejects it rejects     *)
(* with login's error, neither wrapped nor swallowed                      *)
C12_InitializeForwards ==
  \A c \in ClientCallers :
    (outcomes[c] # <<>> /\ LastOutcome(c).kind \in {"built", "thrown"}) =>
      /\ Len(outcomes[c]) = 1
      /\ pc[c] = "idle"
      /\ netCalls[c] = 0
      /\ acquires[c] = 0
      /\ LastOutcome(c).kind = "built" => result[c].kind = "resolved"
      /\ LastOutcome(c).kind = "thrown" =>
           /\ result[c].kind = "rejected"
           /\ result[c].message = LoginSettles(LastOutcome(c)).message

(* login has rejected and initialize has rejected with its error *)
C12_Witness ==
  \E c \in ClientCallers :
    /\ outcomes[c] # <<>>
    /\ LastOutcome(c).kind = "thrown"
    /\ LastOutcome(c).message = "timeout"
    /\ result[c].kind = "rejected"
    /\ result[c].message = "Login failed: timeout"

(* the running login has sent the request of the success step *)
ReachedSuccess == \E i \in 1..Len(sent) : sent[i] = "success"

(* username, password and email are all non-empty *)
AllPresent(a) == a.username /\ a.password /\ a.email

(* a login with all three credentials has settled and an isLoggedIn call  *)
(* after it has returned                                                  *)
Answered ==
  /\ lpc = "idle"
  /\ AllPresent(args)
  /\ loginResult.kind \in {"resolved", "rejected"}
  /\ loggedIn # "none"

(* C13 as stated: after a login with username, password and email,        *)
(* isLoggedIn returns true exactly when the flow reached                  *)
(* LoginSuccessSubtask                                                    *)
C13_ExactlyWhenSuccess == Answered => ((loggedIn = "true") <=> ReachedSuccess)

(* C13, amended: after a login with username, password and email,         *)
(* isLoggedIn returns true exactly when its own verify_credentials        *)
(* request succeeds with a body that lists no errors, whatever the login  *)
(* flow reached; while that request is pending nothing has been returned  *)
C13_ExactlyWhenVerified ==
  /\ Answered => ((loggedIn = "true") <=> (verified = "profile"))
  /\ lpc = "verify" => loggedIn = "none"

(* the flow reached LoginSuccessSubtask, the verification request failed  *)
(* and isLoggedIn returned false                                          *)
C13_Witness ==
  /\ Answered
  /\ ReachedSuccess
  /\ loginResult.kind = "resolved"
  /\ verified = "throw"
  /\ loggedIn = "false"

C14_Failed ==
  ~AllPresent(args) =>
    /\ lpc \in {"idle", "verify"}
    /\ loginResult = Rejected(FALSE, Plain("Twitter credentials not available"))
    /\ sent = <<>>
    /\ requests = 0

C14_CallStep ==
  (logins' = logins + 1 /\ ~AllPresent(args')) =>
    /\ loginResult' = Rejected(FALSE, Plain("Twitter credentials not available"))
    /\ lpc' = "idle"
    /\ sent' = <<>>
    /\ requests' = 0
    /\ UNCHANGED <<guestToken, jar>>

(* C14: login called with an empty username, password or email throws    *)
(* 'Twitter credentials not available' at once: no guest activation       *)
(* request and no flow request is sent, and the guest token and the       *)
(* cookie jar stay as they were                                           *)
C14_NoNetwork == []C14_Failed /\ [][C14_CallStep]_vars

(* a login without credentials after a login that got a guest token and a *)
(* cookie                                                                 *)
C14_Witness ==
  /\ ~AllPresent(args)
  /\ args.username
  /\ args.password
  /\ logins = 2
  /\ guestToken = 1
  /\ jar = {Cookie("ct0", "a")}
  /\ loginResult.kind = "rejected"

(* the requests of a login whose responses are instrumentation,           *)
(* identifier, password, success                                          *)
Script ==
  <<"init", "LoginJsInstrumentationSubtask", "LoginEnterUserIdentifierSSO",
    "LoginEnterPassword", "success">>

(* C15: while every flow request is answered first time and the answers   *)
(* are instrumentation, identifier, password, success, login sends after  *)
(* the flow-init request the instrumentation, identifier, password and    *)
(* success steps in this order and nothing else, each once and each with  *)
(* the flow token of the previous result                                  *)
C15_Ordering ==
  /\ (onScript /\ sent # <<>>) =>
       /\ Len(sent) <= Len(Script)
       /\ sent = SubSeq(Script, 1, Len(sent))
       /\ lpc = "flow" => requests = 1
       /\ lpc # "backoff"
       /\ loginResult.kind \in {"resolved", "rejected"} =>
            /\ loginResult.kind = "resolved"
            /\ sent = Script
  /\ (lpc \in {"flow", "backoff"} /\ step # "init") =>
       /\ reqToken = flow.flowToken
       /\ flow.step = sent[Len(sent) - 1]
       /\ step = sent[Len(sent)]

(* such a login has resolved *)
C15_Witness ==
  /\ onScript
  /\ sent = Script
  /\ loginResult.kind = "resolved"
  /\ flow.step = "success"

(* C16: when a flow request resolves with a first subtask the engine does *)
(* not know, login sends no further request and fails                     *)
C16_Unrecognized ==
  (flow.status = "success" /\ flow.subtask = "LoginPuzzleSubtask") =>
    /\ lpc \in {"idle", "verify"}
    /\ loginResult.kind = "rejected"

(* C17: when a flow request, the flow-init request included, resolves to  *)
(* an error state, login sends no further request and rejects with        *)
(* 'Login failed: ' followed by the message of that error                 *)
C17_StopsOnError ==
  flow.status = "error" =>
    /\ lpc \in {"idle", "verify"}
    /\ loginResult = Rejected(TRUE, flow.err)

(* the delay before retry retryCount + 1: 1 s, 2 s, 4 s *)
Delay(rc) ==
  CASE rc = 0 -> 1 * Second
    [] rc = 1 -> 2 * Second
    [] rc = 2 -> 4 * Second
    [] OTHER -> 0

C18_Budget ==
  /\ requests <= 4
  /\ retryCount <= 3
  /\ lpc \in {"flow", "backoff"} => requests = retryCount + 1
  /\ lpc = "backoff" =>
       /\ retryCount < 3
       /\ timer + slept = Delay(retryCount)

C18_RetryStep ==
  /\ (lpc = "flow" /\ lpc' = "backoff") =>
       /\ timer' = Delay(retryCount)
       /\ slept' = 0
       /\ UNCHANGED <<step, reqToken, retryCount, requests, flow, loginResult>>
  /\ (lpc = "backoff" /\ lpc' = "flow") =>
       /\ slept >= Delay(retryCount)
       /\ slept <= Delay(retryCount) + MaxLate
       /\ retryCount' = retryCount + 1
       /\ requests' = requests + 1
       /\ UNCHANGED <<step, reqToken, flow, loginResult>>
  /\ (lpc = "flow" /\ lpc' # "backoff" /\ requests < 4) =>
       /\ flow'.step = step
       /\ flow'.status = "success" \/ flow'.err = Plain("Invalid flow token")
  /\ (lpc = "flow" /\ lpc' # "backoff" /\ requests = 4) =>
       /\ flow'.step = step
       /\ flow'.status \in {"success", "error"}

(* C18: a flow request that fails by a transport failure, a non-success   *)
(* status or a non-empty errors list is sent again after 1 s, 2 s and     *)
(* 4 s, at most 4 times in all, and after the 4th failure executeFlowTask *)
(* resolves to an error state                                             *)
C18_RetryBudget == []C18_Budget /\ [][C18_RetryStep]_vars

(* a step has failed 4 times and resolved to the error of the last        *)
(* failure                                                                *)
C18_Witness ==
  /\ lpc = "idle"
  /\ requests = 4
  /\ retryCount = 3
  /\ flow.status = "error"
  /\ flow.err = Plain("timeout")
  /\ loginResult = Rejected(TRUE, Plain("timeout"))

(* C19: a step that ends with 'Invalid flow token' has been sent 4 times: *)
(* a body without a string flow_token is retried like other failures      *)
C19_NoTokenRetried ==
  (lpc \in {"idle", "verify"} /\ flow.err = Plain("Invalid flow token")) =>
    requests = MaxRetries + 1

(* C20: a step whose first request and 3 retries were all answered with   *)
(* DenyLoginSubtask resolves to an error state, and login fails           *)
C20_DeniedIsError ==
  (/\ lpc \in {"idle", "verify"}
   /\ loginResult.kind \in {"resolved", "rejected"}
   /\ denied
   /\ requests = MaxRetries + 1) =>
    /\ flow.status = "error"
    /\ loginResult.kind = "rejected"

(* a login without a two-factor secret has settled after the flow asked   *)
(* for the two-factor code                                                *)
TwoFactorDemanded ==
  /\ lpc = "idle"
  /\ loginResult.kind \in {"resolved", "rejected"}
  /\ ~args.secret
  /\ flow.status = "success"
  /\ flow.subtask = "LoginTwoFactorAuthChallenge"
  /\ flow.step \in {"LoginEnterPassword", "AccountDuplicationCheck"}

(* test.ts:285, 292: how login fails when the flow ends on any subtask    *)
(* other than LoginSuccessSubtask                                         *)
NotCompleted == Rejected(TRUE, Plain("Login flow did not complete successfully"))

(* C21: when the flow reaches LoginTwoFactorAuthChallenge and login was   *)
(* given no twoFactorSecret, no two-factor request and no success request *)
(* is sent and login fails with an error of its own, which no other       *)
(* failure of login produces                                              *)
C21_TwoFactorRequired ==
  TwoFactorDemanded =>
    /\ \A i \in 1..Len(sent) : sent[i] \notin {"LoginTwoFactorAuthChallenge", "success"}
    /\ loginResult.kind = "rejected"
    /\ loginResult # NotCompleted

(* C22: while the platform rejects the two-factor code, the step submits  *)
(* it at most 3 times, each submission with a code generated for it, the  *)
(* second at least 2 s after the first rejection and the third at least   *)
(* 4 s after the second                                                   *)
C22_LinearRetries ==
  step = "LoginTwoFactorAuthChallenge" =>
    /\ requests <= 3
    /\ (lpc = "flow" /\ rejects /\ requests > 1) =>
         /\ attempts = requests
         /\ slept >= 2 * (requests - 1) * Second

(* appKey, appSecret, accessToken and accessSecret are all supplied *)
AllFour(a) == {"appKey", "appSecret", "accessToken", "accessSecret"} \subseteq a.keys

C23_First ==
  (logins = 1 /\ lpc = "idle" /\ loginResult.kind \in {"resolved", "rejected"}) =>
    (v2Client <=> (loginResult.kind = "resolved" /\ ReachedSuccess /\ AllFour(args)))

C23_Step ==
  v2Client' = (v2Client \/ (/\ loginResult.kind = "pending"
                            /\ loginResult'.kind = "resolved"
                            /\ AllFour(args)))

Stale == guestToken = 0 \/ now - guestCreatedAt > 3 * 60 * 60 * Second

(* a step by which task t calls TwitterGuestAuth.installTo, which returns *)
(* in the same step                                                       *)
InstallToReturnsAtOnce(t) ==
  /\ ops' = ops + 1
  /\ sop' = sop
  /\ sresult' = Returned(t, "installTo", "none")

(* a step by which task t calls TwitterGuestAuth.installTo, which sends a *)
(* guest activation request                                               *)
InstallToActivates(t) ==
  /\ ops' = ops + 1
  /\ sop[t].name = "none"
  /\ sop'[t].name = "installTo"
  /\ spc'[t] = "refresh"

(* a step by which the guest activation request of task t settles *)
ActivationSettles(t) == spc[t] = "refresh" /\ spc'[t] = "idle"

C24_Step ==
  \A t \in SessionTasks :
    /\ InstallToActivates(t) => Stale
    /\ InstallToReturnsAtOnce(t) => (~Stale /\ UNCHANGED <<guestToken, guestCreatedAt>>)
    /\ (ActivationSettles(t) /\ sresult'.kind = "resolved") =>
         (guestToken' # 0 /\ guestCreatedAt' = now')

(* C24: TwitterGuestAuth.installTo sends a guest activation request       *)
(* exactly when there is no guest token or the token is older than 3      *)
(* hours; with a younger token it sends none and leaves guestToken and    *)
(* guestCreatedAt as they are; a successful activation sets               *)
(* guestCreatedAt to the time at which it is stored                       *)
C24_Freshness == [][C24_Step]_vars

(* installTo, called when the token of an earlier login was older than    *)
(* three hours, has renewed it                                            *)
C24_Witness ==
  /\ sresult = Returned("s1", "installTo", "ok")
  /\ ops = 2
  /\ ~overlapped
  /\ guestToken = 2
  /\ guestCreatedAt = now
  /\ now > StartTime + 3 * 60 * 60 * Second

C25_Step ==
  \A t \in SessionTasks :
    ActivationSettles(t) =>
      IF sresult'.response = "ok"
      THEN sresult'.kind = "resolved"
      ELSE /\ sresult'.response \in {"throw", "status", "null", "missing", "notstring"}
           /\ sresult'.kind = "rejected"
           /\ sresult'.text # ""
           /\ UNCHANGED <<guestToken, guestCreatedAt>>

(* C25: updateGuestToken throws an error when the response is not         *)
(* successful, the body is null, or guest_token is missing or not a       *)
(* string, and then guestToken and guestCreatedAt keep the values they    *)
(* had                                                                    *)
C25_TokenKept == [][C25_Step]_vars

(* a renewal has failed on a guest_token that is no string, and the token *)
(* of more than three hours is still stored                               *)
C25_Witness ==
  /\ sresult = Thrown("s1", "installTo", "guest_token was not a string.", "notstring")
  /\ guestToken = 1
  /\ guestCreatedAt # 0
  /\ now - guestCreatedAt > 3 * 60 * 60 * Second

(* C26: every cookie set by a response to a guest activation request or   *)
(* to a flow request is in the jar, also when the response made the call  *)
(* fail or retry                                                          *)
C26_CookiesMerged == \A c \in received : c \in jar

(* the first guest activation of a session was answered with a failure    *)
(* that set a cookie, and the cookie is in the jar                        *)
C26_Witness ==
  /\ logins = 1
  /\ guestToken = 0
  /\ loginResult.kind = "rejected"
  /\ received # {}
  /\ jar = {Cookie("ct0", "a")}

(* C27: once two guest activation requests have been under way at the     *)
(* same time, the jar holds every cookie stored before and every cookie   *)
(* either response has set                                                *)
C27_Union == overlapped => (\A c \in received : c \in jar)

(* two guest activations, the only operations so far, overlapped and set  *)
(* different cookies; both are in the jar                                 *)
C27_Witness ==
  /\ overlapped
  /\ ops = 2
  /\ \A t \in SessionTasks : spc[t] = "idle"
  /\ jar = {Cookie("ct0", "a"), Cookie("guest_id", "g")}

(* C28: guestToken is set exactly when guestCreatedAt is set *)
C28_SetTogether == (guestToken = 0) <=> (guestCreatedAt = 0)

(* the token installTo had put in the headers has been deleted *)
C28_Witness ==
  /\ headers["s1"].guest # 0
  /\ sresult.op \in {"deleteToken", "logout", "userLogout"}
  /\ sresult.kind = "resolved"
  /\ guestToken = 0
  /\ guestCreatedAt = 0

(* C29 as stated: installTo sends no request and changes neither the      *)
(* guest token nor the cookie jar                                         *)
C29_NoSideEffect ==
  \A t \in SessionTasks : ~(sop[t].name = "installTo" /\ spc[t] = "refresh")

(* a step by which task t calls TwitterUserAuth.installTo *)
UserInstallToReturns(t) ==
  /\ ops' = ops + 1
  /\ sop' = sop
  /\ sresult' = Returned(t, "userInstallTo", "none")

(* the last operation to settle was n of task t, which returned: the      *)
(* session is since as that call left it                                  *)
JustReturned(t, n) == sresult.task = t /\ sresult.op = n /\ sresult.kind = "resolved"

C29_Step ==
  \A t \in SessionTasks :
    /\ UserInstallToReturns(t) =>
         /\ UNCHANGED <<guestToken, guestCreatedAt, jar, spc>>
         /\ JustReturned(t, "userInstallTo") => headers'[t] = headers[t]
    /\ ((InstallToActivates(t) \/ InstallToReturnsAtOnce(t)) /\ ~Stale) =>
         /\ UNCHANGED <<guestToken, guestCreatedAt, jar, spc>>
         /\ JustReturned(t, "installTo") => headers'[t] = headers[t]

(* C29, amended: TwitterUserAuth.installTo, and TwitterGuestAuth.installTo *)
(* called with a guest token not older than 3 hours, send no request,     *)
(* leave guest token, guestCreatedAt and cookie jar as they are, and      *)
(* called again on the session as the last call left it leave the         *)
(* headers as they are                                                    *)
C29_HeadersOnly == [][C29_Step]_vars

(* installTo has returned at once with the token and the ct0 cookie of an *)
(* earlier activation                                                     *)
C29_Witness ==
  /\ sresult = Returned("s1", "installTo", "none")
  /\ guestToken # 0
  /\ headers["s1"].guest = guestToken
  /\ headers["s1"].csrf = "a"
  /\ ops = 3

(* a step by which an installTo call of task t returns *)
InstallReturns(t) ==
  \/ InstallToReturnsAtOnce(t)
  \/ UserInstallToReturns(t)
  \/ ActivationSettles(t) /\ sop[t].name = "installTo" /\ sresult'.kind = "resolved"

C30_Step ==
  \A t \in SessionTasks :
    InstallReturns(t) =>
      /\ headers'[t].authorization = "Bearer"
      /\ headers'[t].cookieSet
      /\ headers'[t].cookie = {<<c.key, c.value>> : c \in jar'}
      /\ \A c \in jar' : c.key = "ct0" => headers'[t].csrf = c.value
      /\ (\A c \in jar' : c.key # "ct0") => headers'[t].csrf = headers[t].csrf

(* C30: an installTo call that returns has set the authorization header   *)
(* to the bearer token and the cookie header to the cookies of the jar;   *)
(* it has set x-csrf-token to the value of the ct0 cookie when the jar    *)
(* holds one and has left that header alone when it holds none            *)
C30_CsrfFromCookie == [][C30_Step]_vars

(* installTo of TwitterUserAuth has set x-csrf-token from the ct0 cookie   *)
(* of the jar, on headers that TwitterGuestAuth.installTo never wrote     *)
C30_Witness ==
  /\ sresult = Returned("s1", "userInstallTo", "none")
  /\ headers["s1"].csrf = "a"
  /\ headers["s1"].cookie = {<<"ct0", "a">>}
  /\ headers["s1"].guest = 0

(* C33: a postTweet whose first attempt gets a response with data returns *)
(* a result whose data carries the id and text of that response and whose *)
(* errors is undefined, after one waitForNext call and one transport      *)
(* call, and without having waited for a backoff                          *)
C33_FirstAttempt ==
  \A c \in ClientCallers :
    (Len(outcomes[c]) = 1 /\ outcomes[c][1].kind = "data") =>
      /\ pc[c] = "idle"
      /\ result[c].kind = "response"
      /\ Present(result[c].data)
      /\ result[c].data[1].id = outcomes[c][1].id
      /\ result[c].data[1].text = outcomes[c][1].text
      /\ ~Present(result[c].errors)
      /\ acquires[c] = 1
      /\ netCalls[c] = 1
      /\ attempt[c] = 1

(* postTweet with the default retries has returned the tweet of its first *)
(* response                                                               *)
C33_Witness ==
  \E c \in ClientCallers :
    /\ pc[c] = "idle"
    /\ retries[c] = 6
    /\ outcomes[c] = <<[kind |-> "data", id |-> "1", text |-> "gm", message |-> ""]>>
    /\ Present(result[c].data)
    /\ result[c].data[1].text = "gm"
    /\ acquires[c] = 1

C36_Bounded ==
  \A c \in ClientCallers :
    attempt[c] >= 1 =>
      /\ 2 * netCalls[c] <= retries[c] \/ netCalls[c] = 0
      /\ netCalls[c] <= attempt[c]
      /\ pc[c] = "backoff" =>
           /\ 2 * attempt[c] < retries[c]
           /\ LastOutcome(c).kind # "data"
           /\ Len(outcomes[c]) = attempt[c]

C36_Step ==
  \A c \in ClientCallers :
    /\ (pc[c] = "tweet" /\ pc'[c] # "tweet" /\ LastOutcome(c)'.kind # "data") =>
         IF 2 * attempt[c] = retries[c]
         THEN /\ pc'[c] = "idle"
              /\ Present(result'[c].errors)
              /\ UNCHANGED <<timers, wake>>
         ELSE /\ pc'[c] = "backoff"
              /\ wake'[c] = now + (2 ^ attempt[c]) * Second
    /\ (pc[c] = "backoff" /\ pc'[c] # "backoff") =>
         /\ now >= wake[c]
         /\ attempt'[c] = attempt[c] + 1

C34_Step ==
  \A c \in Callers :
    /\ (/\ pc[c] = "idle"
        /\ pc'[c] # "idle"
        /\ requestCount = maxRequests
        /\ now - lastRequest <= timeWindow) =>
         /\ pc'[c] \in {"minDelay", "window"}
         /\ UNCHANGED <<requestCount, lastRequest>>
    /\ (pc[c] \in {"minDelay", "window"} /\ pc'[c] = "granted" /\ requestCount = maxRequests) =>
         /\ now' - lastRequest >= timeWindow
         /\ requestCount' = 1
         /\ lastRequest' = now'

(* C34: with sequential callers, a call issued within the window when     *)
(* maxRequests calls have been granted is suspended; it is granted        *)
(* timeWindow or more after the last of those grants, and then            *)
(* requestCount is 1 and lastRequest is the time of the grant             *)
C34_CeilingHit == [][C34_Step]_vars

(* the call issued at the very tick of grant maxRequests has been granted *)
(* one minimum delay and one window later                                 *)
C34_Witness ==
  /\ Len(grantLog) = maxRequests + 1
  /\ grantLog[maxRequests + 1] - grantLog[maxRequests] = minDelay + timeWindow
  /\ requestCount = 1
  /\ lastRequest = now
  /\ \E c \in Callers : pc[c] = "granted"

C35_Step ==
  \A c \in LiveCallers :
    /\ pc[c] = "idle" => pc'[c] \in {"idle", "minDelay", "window", "granted"}
    /\ pc[c] = "minDelay" => pc'[c] \in {"minDelay", "window", "granted"}
    /\ pc[c] = "window" => pc'[c] \in {"window", "granted"}
    /\ (pc[c] = "minDelay" /\ pc'[c] = "minDelay") => wake'[c] = wake[c]
    /\ (pc[c] = "window" /\ pc'[c] = "window") => wake'[c] = wake[c]

(* C35: provided timers fire, every waitForNext call that is suspended,   *)
(* whatever other calls are under way, is granted in the end; it waits    *)
(* for at most one timer of the minimum delay and one of the window, and  *)
(* it never settles otherwise than by the grant                           *)
C35_Absorbed ==
  /\ \A c \in LiveCallers : (pc[c] \in {"minDelay", "window"}) ~> (pc[c] = "granted")
  /\ [][C35_Step]_vars

(* a call has been granted after both waits while another call is still   *)
(* suspended                                                              *)
C35_Witness ==
  /\ pc["a"] = "granted"
  /\ pc["b"] \in {"minDelay", "window"}
  /\ requestCount = 1
  /\ Len(grantLog) = maxRequests + 1
  /\ grantLog[maxRequests + 1] - grantLog[maxRequests] >= timeWindow

C37_Bounds == requestCount >= 0 /\ requestCount <= maxRequests

C37_Step == lastRequest' >= lastRequest

(* C37: whatever the interleaving of concurrent waitForNext calls,        *)
(* requestCount stays between 0 and maxRequests and lastRequest never     *)
(* decreases                                                              *)
C37_CounterInRange == []C37_Bounds /\ [][C37_Step]_vars

(* two calls wait out the window at once with the counter at the ceiling *)
C37_Witness ==
  /\ requestCount = maxRequests
  /\ \E c, d \in Callers : c # d /\ pc[c] = "window" /\ pc[d] = "window"

(* the requests whose result login tests for LoginSuccessSubtask *)
DecidingSteps == {"LoginEnterPassword", "AccountDuplicationCheck", "LoginTwoFactorAuthChallenge"}

(* a flow request has resolved and login neither goes on to the           *)
(* duplication check nor to the two-factor challenge                      *)
ResultDecides ==
  /\ lpc = "flow"
  /\ lpc' # "backoff"
  /\ step \in DecidingSteps
  /\ flow'.status = "success"
  /\ ~(lpc' = "flow" /\ step' \in DecidingSteps)

C39_Step ==
  /\ ResultDecides =>
       IF flow'.subtask = "LoginSuccessSubtask"
       THEN lpc' = "flow" /\ step' = "success" /\ loginResult' = Pending
       ELSE lpc' = "idle" /\ loginResult'.kind = "rejected"
  /\ (step' = "success" /\ step # "success") =>
       /\ step \in DecidingSteps
       /\ flow'.subtask = "LoginSuccessSubtask"
  /\ (step = "success" /\ lpc \in {"flow", "backoff"}) =>
       /\ loginResult = Pending
       /\ loginResult' \in {Pending, Resolved}
  /\ (loginResult = Pending /\ loginResult' = Resolved) => step = "success"

(* C39: login resolves exactly when the flow result it holds after the    *)
(* password step and the duplication check and two-factor steps, where    *)
(* taken, carries LoginSuccessSubtask: it then sends the success request  *)
(* and resolves however that request ends, and it rejects otherwise       *)
C39_SuccessDecides == [][C39_Step]_vars

(* login has resolved although the success request failed four times *)
C39_Witness ==
  /\ loginResult = Resolved
  /\ flow.step = "success"
  /\ flow.status = "error"
  /\ requests = 4
  /\ retryCount = MaxRetries

(* the session after a logout: hasToken() is false, authenticatedAt() is  *)
(* null, the jar holds no cookie                                          *)
LoggedOut == guestToken' = 0 /\ guestCreatedAt' = 0 /\ jar' = {}

(* a step by which TwitterGuestAuth.logout runs *)
GuestLogoutRuns == ops' # ops /\ spc' = spc /\ sresult'.op = "logout"

(* a step by which task t calls TwitterUserAuth.logout *)
UserLogoutCalled(t) == spc[t] = "idle" /\ sop'[t].name = "userLogout"

(* a step by which the logout request of task t settles *)
LogoutSettles(t) == spc[t] = "logout" /\ spc'[t] = "idle"

C40_Completes ==
  /\ GuestLogoutRuns => LoggedOut
  /\ \A t \in SessionTasks :
       /\ (LogoutSettles(t) /\ sresult'.kind = "resolved") => LoggedOut
       /\ UserLogoutCalled(t) =>
            /\ spc'[t] = "logout"
            /\ UNCHANGED <<guestToken, guestCreatedAt, jar>>

(* C40 as stated: a logout that completes clears token, date and jar; the *)
(* user logout sends its request whatever the session holds; when that    *)
(* request does not succeed, token and jar are as before                  *)
C40_FailedRequestKeeps ==
  [][/\ C40_Completes
     /\ \A t \in SessionTasks :
          (LogoutSettles(t) /\ sresult'.response # "ok") =>
            UNCHANGED <<guestToken, guestCreatedAt, jar>>]_vars

(* C40: a logout that completes clears token, date and jar; the user      *)
(* logout sends its request whatever the session holds; when requestApi   *)
(* rejects, logout rejects and token and jar are as before; when it       *)
(* resolves without success, logout completes and the session is cleared  *)
C40_ThrownRequestKeeps ==
  [][/\ C40_Completes
     /\ \A t \in SessionTasks :
          /\ (LogoutSettles(t) /\ sresult'.response = "throw") =>
               /\ sresult'.kind = "rejected"
               /\ UNCHANGED <<guestToken, guestCreatedAt, jar>>
          /\ (LogoutSettles(t) /\ sresult'.response = "failure") =>
               /\ sresult'.kind = "resolved"
               /\ LoggedOut]_vars

(* a user logout whose request was refused has cleared a session whose    *)
(* token and cookie installTo had put in the headers                      *)
C40_Witness ==
  /\ sresult = Returned("s1", "userLogout", "failure")
  /\ headers["s1"].guest # 0
  /\ headers["s1"].cookie # {}
  /\ guestToken = 0
  /\ guestCreatedAt = 0
  /\ jar = {}

(* C36: postTweet with retries = n >= 1 makes at most n transport calls;   *)
(* an attempt whose response has no data or whose call rejects has        *)
(* failed; after failed attempt k < n the next attempt waits for a timer  *)
(* of 2^k seconds, and after failed attempt n postTweet returns its error *)
(* result at once, with no timer                                          *)
C36_RetryBound == []C36_Bounded /\ [][C36_Step]_vars

(* retries = 2: the first response had no data, the second attempt was    *)
(* made 2 s or more later and failed, and postTweet has returned          *)
C36_Witness ==
  \E c \in ClientCallers :
    /\ pc[c] = "idle"
    /\ retries[c] = 4
    /\ attempt[c] = 2
    /\ netCalls[c] = 2
    /\ outcomes[c][1].kind = "nodata"
    /\ outcomes[c][2].kind # "data"
    /\ Present(result[c].errors)

C38_NoRetries ==
  \A c \in ClientCallers :
    (attempt[c] >= 1 /\ retries[c] <= 0) =>
      /\ pc[c] = "idle"
      /\ result[c].kind = "response"
      /\ result[c].errors = << <<[code |-> 500, message |-> "Maximum retry attempts reached"]>> >>
      /\ ~Present(result[c].data)
      /\ acquires[c] = 0
      /\ netCalls[c] = 0

MaximumReached(c) ==
  /\ result[c].kind = "response"
  /\ Present(result[c].errors)
  /\ result[c].errors[1][1].message = "Maximum retry attempts reached"

(* C38 as stated: postTweet on an initialized client with retries <= 0     *)
(* calls neither waitForNext nor the transport and returns the error      *)
(* 500 'Maximum retry attempts reached'; with retries >= 1 it never       *)
(* returns that result                                                    *)
C38_FallbackOnlyWithoutRetries ==
  /\ C38_NoRetries
  /\ \A c \in ClientCallers : (attempt[c] >= 1 /\ retries[c] >= 2) => ~MaximumReached(c)

(* C38, amended: postTweet on an initialized client with retries <= 0      *)
(* calls neither waitForNext nor the transport and returns the error      *)
(* 500 'Maximum retry attempts reached'; with an integer retries >= 1 it  *)
(* never returns that result                                              *)
C38_FallbackIntegers ==
  /\ C38_NoRetries
  /\ \A c \in ClientCallers :
       (attempt[c] >= 1 /\ retries[c] >= 2 /\ retries[c] % 2 = 0) => ~MaximumReached(c)

(* postTweet called with retries = -1 has returned the fallback result *)
C38_Witness ==
  \E c \in ClientCallers :
    /\ api
    /\ attempt[c] = 1
    /\ retries[c] = -2
    /\ MaximumReached(c)
    /\ acquires[c] = 0

(* a step by which a flow request is sent: the first of a step of the     *)
(* flow, or a retry                                                       *)
SendsRequest == lpc' = "flow" /\ (lpc # "flow" \/ sent' # sent)

C31_Step ==
  SendsRequest =>
    /\ reqHeaders'.cookie = {<<c.key, c.value>> : c \in jar'}
    /\ \A c \in jar' : c.key = "ct0" => reqHeaders'.csrf = c.value
    /\ (\A c \in jar' : c.key # "ct0") => reqHeaders'.csrf = "none"

(* C31: every flow request, a retry as well as the first request of a     *)
(* step, carries the cookie string and the x-csrf-token of the jar as it  *)
(* is when the request is sent: after a response has rotated ct0 the next *)
(* request carries the new value                                          *)
C31_FreshCsrf == [][C31_Step]_vars

(* the guest activation had set ct0 to a, the first answer to the         *)
(* flow-init request refused it and rotated ct0 to b, and the retry       *)
(* carries b                                                              *)
C31_Witness ==
  /\ logins = 1
  /\ lpc = "flow"
  /\ step = "init"
  /\ retryCount = 1
  /\ Cookie("ct0", "a") \in received
  /\ jar = {Cookie("ct0", "b")}
  /\ reqHeaders.csrf = "b"
  /\ reqHeaders.cookie = {<<"ct0", "b">>}

(* test.ts:326-337: the names of the cookies initLogin means to remove *)
SessionCookieNames ==
  {"twitter_ads_id", "ads_prefs", "_twitter_sess", "zipbox_forms_auth_token", "lang",
   "bouncer_reset_cookie", "twid", "twitter_ads_idb", "email_uid", "external_referer",
   "ct0", "aa_u"}

(* C32: the flow-init request carries none of the session cookies         *)
(* initLogin removes: they are gone from the jar before the request's     *)
(* cookie string is read                                                  *)
C32_Cleared ==
  (lpc = "flow" /\ step = "init") =>
    \A c \in reqHeaders.cookie : c[1] \notin SessionCookieNames

TypeOK ==
  /\ now \in (StartTime..(StartTime + Horizon + ClientHorizon)) \cup SessionTimes
  /\ timers \in Seq(Callers)
  /\ lastRequest \in 0..now
  /\ requestCount \in Nat
  /\ pc \in [Callers -> {"idle", "minDelay", "window", "granted", "tweet", "backoff", "deleting"}]
  /\ lpc \in {"idle", "guest", "flow", "backoff", "linear", "verify"}
  /\ args \in LoginArgs \cup ChallengeArgs
  /\ logins \in 0..MaxLogins
  /\ guestToken \in 0..(MaxLogins + 2)
  /\ guestCreatedAt \in {0} \cup (StartTime..SessionMaxTime)
  /\ guestCreatedAt = 0 \/ guestCreatedAt <= now
  /\ jar \subseteq UNION (SessionCookieChoices \cup RotateCookieChoices)
  /\ received \subseteq UNION (SessionCookieChoices \cup RotateCookieChoices)
  /\ v2Client \in BOOLEAN
  /\ attempts \in 0..MaxAttempts
  /\ rejects \in BOOLEAN
  /\ reqHeaders.csrf \in {"none", "a", "b"}
  /\ overlapped \in BOOLEAN
  /\ ops \in 0..MaxOps
  /\ spc \in [SessionTasks -> {"idle", "refresh", "logout"}]
  /\ sresult.kind \in {"none", "resolved", "rejected"}
  /\ \A t \in SessionTasks :
       /\ sop[t].name \in {"none", "installTo", "login", "userLogout"}
       /\ headers[t].authorization \in {"none", "Bearer"}
  /\ step \in Subtasks \cup {"none", "init", "success"}
  /\ reqToken \in FlowTokens \cup {"undefined"}
  /\ retryCount \in 0..MaxRetries
  /\ timer \in (0 - MaxLate)..FlowBackoff(MaxRetries)
  /\ lpc = "linear" => timer \in (0 - MaxLate)..LinearBackoff(MaxAttempts)
  /\ flow.status \in {"none", "success", "error"}
  /\ loginResult.kind \in {"none", "pending", "resolved", "rejected"}
  /\ loggedIn \in {"none", "true", "false"}
  /\ verified \in VerifyOutcomes \cup {"none"}
  /\ denied \in BOOLEAN
  /\ onScript \in BOOLEAN
====
